---------------------------- MODULE Spec2Model ----------------------------
(***************************************************************************)
(* A model of cs_to_visual_scripting_converter.py: the per-method          *)
(* statement translator (VisualScriptingGenerator._process_method), the    *)
(* graph assembly (generate_graph) and the serialisation of nodes and      *)
(* connections (Node.to_dict, Connection.to_dict).                         *)
(*                                                                         *)
(* Source text is modelled as TLA+ strings, read character by character.   *)
(* Positions are 1-based; a match is a record whose field `end' is the     *)
(* position just after the match (Python's match.end() + 1) and whose      *)
(* field `start' is match.start() + 1.  end = 0 means "no match".          *)
(***************************************************************************)
EXTENDS Integers, Sequences, FiniteSets, TLC

(***************************************************************************)
(* Characters and Python's str helpers                                     *)
(***************************************************************************)

\* str[i] (1-based); "" past either end.
Ch(s, i) == IF i >= 1 /\ i <= Len(s) THEN SubSeq(s, i, i) ELSE ""

\* \d over the alphabet of the modelled texts.
Digits == {"0", "1", "2", "3", "4", "5", "6", "7", "8", "9"}

Letters ==
    {"a", "b", "c", "d", "e", "f", "g", "h", "i", "j", "k", "l", "m",
     "n", "o", "p", "q", "r", "s", "t", "u", "v", "w", "x", "y", "z",
     "A", "B", "C", "D", "E", "F", "G", "H", "I", "J", "K", "L", "M",
     "N", "O", "P", "Q", "R", "S", "T", "U", "V", "W", "X", "Y", "Z"}

\* \w
WordChars == Letters \cup Digits \cup {"_"}

\* \s
SpaceChars == {" ", "\t", "\n"}

\* A greedy run X* of a character class starting at i: the position after it.
RECURSIVE SkipWhile(_, _, _)
SkipWhile(s, i, class) ==
    IF i <= Len(s) /\ Ch(s, i) \in class THEN SkipWhile(s, i + 1, class) ELSE i

\* A greedy run [^...]* of a negated class starting at i: the position after it.
RECURSIVE SkipUntil(_, _, _)
SkipUntil(s, i, stop) ==
    IF i <= Len(s) /\ Ch(s, i) \notin stop THEN SkipUntil(s, i + 1, stop) ELSE i

\* The literal text w occurs in s at position i.
At(s, i, w) == i >= 1 /\ i + Len(w) - 1 <= Len(s) /\ SubSeq(s, i, i + Len(w) - 1) = w

\* Python's `w in s'.
Contains(s, w) == \E i \in 1..Len(s) : At(s, i, w)

\* Python's s.startswith(w) and s.endswith(w).
StartsWith(s, w) == At(s, 1, w)
EndsWith(s, w) == At(s, Len(s) - Len(w) + 1, w)

RECURSIVE RStrip(_)
RStrip(s) ==
    IF Len(s) > 0 /\ Ch(s, Len(s)) \in SpaceChars THEN RStrip(SubSeq(s, 1, Len(s) - 1)) ELSE s

\* Python's s.strip().
Strip(s) == LET i == SkipWhile(s, 1, SpaceChars) IN RStrip(SubSeq(s, i, Len(s)))

\* Python's s.isdigit() over the modelled alphabet.
IsDigit(s) == Len(s) > 0 /\ \A i \in 1..Len(s) : Ch(s, i) \in Digits

DigitValue(c) ==
    CASE c = "0" -> 0 [] c = "1" -> 1 [] c = "2" -> 2 [] c = "3" -> 3 [] c = "4" -> 4
      [] c = "5" -> 5 [] c = "6" -> 6 [] c = "7" -> 7 [] c = "8" -> 8 [] c = "9" -> 9

\* Python's int(s) for a string of digits.
RECURSIVE ParseInt(_)
ParseInt(s) ==
    IF Len(s) = 0 THEN 0
    ELSE 10 * ParseInt(SubSeq(s, 1, Len(s) - 1)) + DigitValue(Ch(s, Len(s)))

DigitChar(d) ==
    CASE d = 0 -> "0" [] d = 1 -> "1" [] d = 2 -> "2" [] d = 3 -> "3" [] d = 4 -> "4"
      [] d = 5 -> "5" [] d = 6 -> "6" [] d = 7 -> "7" [] d = 8 -> "8" [] d = 9 -> "9"

\* Python's str(n) for n >= 0.
RECURSIVE Str(_)
Str(n) == IF n < 10 THEN DigitChar(n) ELSE Str(n \div 10) \o DigitChar(n % 10)

\* Python's abs(n).
Abs(n) == IF n < 0 THEN -n ELSE n

\* len([a.strip() for a in s.split(',') if a.strip()]): the comma-separated
\* pieces of s from position i on that are not blank.
RECURSIVE CountArgs(_, _)
CountArgs(s, i) ==
    LET j == SkipUntil(s, i, {","})
        here == IF Strip(SubSeq(s, i, j - 1)) # "" THEN 1 ELSE 0
    IN  IF j > Len(s) THEN here ELSE here + CountArgs(s, j + 1)

(***************************************************************************)
(* The recognition patterns of _process_method.  Each operator X_pattern   *)
(* is the regular expression of the same name tried at one start position  *)
(* i, as Python's backtracking matcher tries it: the greedy runs are taken *)
(* whole, and where giving characters back could change the outcome the    *)
(* comment says so.  re_search tries the start positions left to right,    *)
(* which is re.finditer resumed at position i.                             *)
(***************************************************************************)

NoMatch == [end |-> 0]

\* The look-back window of the generic-call category, in characters.
LookBack == 20

\* for\s*\(\s*(?:int|var)\s+(\w+)\s*=\s*([^;]+);\s*\1\s*([<>]=?)\s*([^;]+);
\*    \s*\1\s*(\+\+|--|\+=\s*\d+|-=\s*\d+)\s*\)
for_pattern(s, i) ==
    LET p1 == SkipWhile(s, i + 3, SpaceChars)            \* for\s*          "(" at p1
        p2 == SkipWhile(s, p1 + 1, SpaceChars)           \* \(\s*           int|var at p2
        p3 == SkipWhile(s, p2 + 3, SpaceChars)           \* (?:int|var)\s+
        p4 == SkipWhile(s, p3, WordChars)                \* (\w+)
        var_name == SubSeq(s, p3, p4 - 1)
        p5 == SkipWhile(s, p4, SpaceChars)               \* \s*             "=" at p5
        p6 == SkipUntil(s, p5 + 1, {";"})                \* \s*([^;]+)      ";" at p6
        p7 == SkipWhile(s, p6 + 1, SpaceChars)           \* ;\s*            \1 at p7
        p8 == SkipWhile(s, p7 + Len(var_name), SpaceChars) \* \1\s*         [<>] at p8
        \* [<>]=? takes the "=" unless that would leave ([^;]+) empty
        eq == Ch(s, p8 + 1) = "=" /\ Ch(s, p8 + 2) # ";"
        operator == SubSeq(s, p8, IF eq THEN p8 + 1 ELSE p8)
        p9 == IF eq THEN p8 + 2 ELSE p8 + 1
        p10 == SkipUntil(s, p9, {";"})                   \* \s*([^;]+)      ";" at p10
        p11 == SkipWhile(s, p10 + 1, SpaceChars)         \* ;\s*            \1 at p11
        p12 == SkipWhile(s, p11 + Len(var_name), SpaceChars) \* \1\s*
        d1 == SkipWhile(s, p12 + 2, SpaceChars)          \* (\+=|-=)\s*
        d2 == SkipWhile(s, d1, Digits)                   \* \d+
        plain == At(s, p12, "++") \/ At(s, p12, "--")
        stepped == (At(s, p12, "+=") \/ At(s, p12, "-=")) /\ d2 > d1
        p13 == IF plain THEN p12 + 2 ELSE d2
        p14 == SkipWhile(s, p13, SpaceChars)             \* \s*             ")" at p14
    IN  IF /\ At(s, i, "for")
           /\ Ch(s, p1) = "("
           /\ (At(s, p2, "int") \/ At(s, p2, "var"))
           /\ p3 > p2 + 3
           /\ p4 > p3
           /\ Ch(s, p5) = "="
           /\ p6 > p5 + 1 /\ Ch(s, p6) = ";"
           /\ At(s, p7, var_name)
           /\ Ch(s, p8) \in {"<", ">"}
           /\ p10 > p9 /\ Ch(s, p10) = ";"
           /\ At(s, p11, var_name)
           /\ (plain \/ stepped)
           /\ Ch(s, p14) = ")"
        THEN [start |-> i, end |-> p14 + 1,
              var_name |-> var_name,
              start_val |-> Strip(SubSeq(s, p5 + 1, p6 - 1)),
              operator |-> operator,
              end_val |-> Strip(SubSeq(s, p9, p10 - 1)),
              increment |-> Strip(SubSeq(s, p12, p13 - 1))]
        ELSE NoMatch

\* <keyword>\s*\(([^)]+)\) : the shape shared by while, Debug.Log and if.
\* group 1 is s[p1+1 .. p2-1], not yet stripped.
paren_pattern(s, i, keyword) ==
    LET p1 == SkipWhile(s, i + Len(keyword), SpaceChars)  \* keyword\s*     "(" at p1
        p2 == SkipUntil(s, p1 + 1, {")"})                 \* ([^)]+)        ")" at p2
    IN  IF /\ At(s, i, keyword)
           /\ Ch(s, p1) = "("
           /\ p2 > p1 + 1 /\ Ch(s, p2) = ")"
        THEN [start |-> i, end |-> p2 + 1, group1 |-> SubSeq(s, p1 + 1, p2 - 1)]
        ELSE NoMatch

\* while\s*\(([^)]+)\)
while_pattern(s, i) == paren_pattern(s, i, "while")

\* foreach\s*\(\s*(?:var|(\w+))\s+(\w+)\s+in\s+([^)]+)\)
\* (?:var|(\w+))\s+ ends where the word run at p2 ends under either
\* alternative.  \s+([^)]+) needs one space and one more character before
\* the first ")": the run of spaces gives its last character back to the
\* group when the collection is blank.
foreach_pattern(s, i) ==
    LET p1 == SkipWhile(s, i + 7, SpaceChars)            \* foreach\s*      "(" at p1
        p2 == SkipWhile(s, p1 + 1, SpaceChars)           \* \(\s*
        p3 == SkipWhile(s, p2, WordChars)                \* (?:var|(\w+))
        p4 == SkipWhile(s, p3, SpaceChars)               \* \s+
        p5 == SkipWhile(s, p4, WordChars)                \* (\w+)
        p6 == SkipWhile(s, p5, SpaceChars)               \* \s+             "in" at p6
        p7 == SkipUntil(s, p6 + 3, {")"})                \* \s+([^)]+)      ")" at p7
    IN  IF /\ At(s, i, "foreach")
           /\ Ch(s, p1) = "("
           /\ p3 > p2 /\ p4 > p3 /\ p5 > p4 /\ p6 > p5
           /\ At(s, p6, "in")
           /\ Ch(s, p6 + 2) \in SpaceChars
           /\ p7 > p6 + 3 /\ Ch(s, p7) = ")"
        THEN [start |-> i, end |-> p7 + 1,
              item_name |-> SubSeq(s, p4, p5 - 1),
              collection |-> Strip(SubSeq(s, p6 + 3, p7 - 1))]
        ELSE NoMatch

\* switch\s*\(([^)]+)\)\s*\{
switch_pattern(s, i) ==
    LET m == paren_pattern(s, i, "switch")
        p3 == SkipWhile(s, m.end, SpaceChars)            \* \s*             "{" at p3
    IN  IF m.end # 0 /\ Ch(s, p3) = "{"
        THEN [start |-> i, end |-> p3 + 1, selector |-> Strip(m.group1)]
        ELSE NoMatch

\* Debug\.Log\s*\(([^)]+)\)
debug_log_pattern(s, i) == paren_pattern(s, i, "Debug.Log")

\* if\s*\(([^)]+)\)
if_pattern(s, i) == paren_pattern(s, i, "if")

\* (\w+)\s*=\s*([^;]+);
\* \s*([^;]+) matches when at least one character, blank or not, stands
\* between the "=" and the next ";".
assignment_pattern(s, i) ==
    LET p1 == SkipWhile(s, i, WordChars)                 \* (\w+)
        p2 == SkipWhile(s, p1, SpaceChars)               \* \s*             "=" at p2
        p3 == SkipUntil(s, p2 + 1, {";"})                \* \s*([^;]+)      ";" at p3
    IN  IF /\ p1 > i
           /\ Ch(s, p2) = "="
           /\ p3 > p2 + 1 /\ Ch(s, p3) = ";"
        THEN [start |-> i, end |-> p3 + 1,
              var_name |-> SubSeq(s, i, p1 - 1),
              var_value |-> Strip(SubSeq(s, p2 + 1, p3 - 1))]
        ELSE NoMatch

\* yield\s+return\s+(?:new\s+)?(\w+)\s*(?:\(([^)]*)\))?
\* (?:new\s+)? is taken unless no word follows it ("new" is then the type).
\* The optional argument group is taken when "(" and a later ")" are there;
\* otherwise the match ends after the \s* run and group 2 is None, which
\* the model writes as the empty text (the code only tests its truth).
yield_pattern(s, i) ==
    LET p1 == SkipWhile(s, i + 5, SpaceChars)            \* yield\s+        "return" at p1
        p2 == SkipWhile(s, p1 + 6, SpaceChars)           \* return\s+
        n1 == SkipWhile(s, p2 + 3, SpaceChars)           \* new\s+
        p3 == IF At(s, p2, "new") /\ n1 > p2 + 3 /\ Ch(s, n1) \in WordChars
              THEN n1 ELSE p2
        p4 == SkipWhile(s, p3, WordChars)                \* (\w+)
        p5 == SkipWhile(s, p4, SpaceChars)               \* \s*
        p6 == SkipUntil(s, p5 + 1, {")"})                \* \(([^)]*)       ")" at p6
        called == Ch(s, p5) = "(" /\ Ch(s, p6) = ")"
    IN  IF /\ At(s, i, "yield")
           /\ p1 > i + 5
           /\ At(s, p1, "return")
           /\ p2 > p1 + 6
           /\ p4 > p3
        THEN [start |-> i, end |-> IF called THEN p6 + 1 ELSE p5,
              yield_type |-> SubSeq(s, p3, p4 - 1),
              yield_args |-> IF called THEN SubSeq(s, p5 + 1, p6 - 1) ELSE ""]
        ELSE NoMatch

\* (\w+)\.(\w+)\s*\(([^)]*)\)
method_call_pattern(s, i) ==
    LET p1 == SkipWhile(s, i, WordChars)                 \* (\w+)           "." at p1
        p2 == SkipWhile(s, p1 + 1, WordChars)            \* \.(\w+)
        p3 == SkipWhile(s, p2, SpaceChars)               \* \s*             "(" at p3
        p4 == SkipUntil(s, p3 + 1, {")"})                \* \(([^)]*)       ")" at p4
    IN  IF /\ p1 > i
           /\ Ch(s, p1) = "."
           /\ p2 > p1 + 1
           /\ Ch(s, p3) = "("
           /\ Ch(s, p4) = ")"
        THEN [start |-> i, end |-> p4 + 1,
              target_obj |-> SubSeq(s, i, p1 - 1),
              method_name |-> SubSeq(s, p1 + 1, p2 - 1),
              args_str |-> Strip(SubSeq(s, p3 + 1, p4 - 1))]
        ELSE NoMatch

\* case\s+\d+:
case_pattern(s, i) ==
    LET p1 == SkipWhile(s, i + 4, SpaceChars)            \* case\s+
        p2 == SkipWhile(s, p1, Digits)                   \* \d+             ":" at p2
    IN  IF At(s, i, "case") /\ p1 > i + 4 /\ p2 > p1 /\ Ch(s, p2) = ":"
        THEN [start |-> i, end |-> p2 + 1]
        ELSE NoMatch

\* A variant of Categories in which the conditionals are scanned first.
CategoriesIfFirst ==
    <<"if", "for", "while", "foreach", "switch", "debug_log",
      "assignment", "yield", "method_call">>

\* The construct categories, in the order _process_method scans them.
Categories ==
    <<"for", "while", "foreach", "switch", "debug_log", "if",
      "assignment", "yield", "method_call">>

pattern_at(kind, s, i) ==
    CASE kind = "for" -> for_pattern(s, i)
      [] kind = "while" -> while_pattern(s, i)
      [] kind = "foreach" -> foreach_pattern(s, i)
      [] kind = "switch" -> switch_pattern(s, i)
      [] kind = "debug_log" -> debug_log_pattern(s, i)
      [] kind = "if" -> if_pattern(s, i)
      [] kind = "assignment" -> assignment_pattern(s, i)
      [] kind = "yield" -> yield_pattern(s, i)
      [] kind = "method_call" -> method_call_pattern(s, i)
      [] kind = "case" -> case_pattern(s, i)

\* The next match re.finditer(pattern, s) yields when its scan stands at
\* position i: the leftmost start position >= i at which the pattern matches.
re_search(kind, s, i) ==
    LET starts == {j \in i..Len(s) : pattern_at(kind, s, j).end # 0}
    IN  IF starts = {} THEN NoMatch
        ELSE pattern_at(kind, s, CHOOSE j \in starts : \A k \in starts : j <= k)

\* len(re.findall(r'case\s+\d+:', s)), counted from position i on.  Two
\* matches never overlap (no match holds the letters of a second "case"), so
\* findall finds one match for every position the pattern matches at.
count_cases(s, i) ==
    Cardinality({j \in i..Len(s) : case_pattern(s, j).end # 0})

\* The number of characters c among code[i..j].
count_char(code, i, j, c) == Cardinality({k \in i..j : Ch(code, k) = c})

\* The index at which _extract_switch_body's loop breaks: the first "}" at
\* or after i that brings the running depth to zero, the depth after index j
\* being `depth' plus the "{" minus the "}" among code[i..j]; 0 when the loop
\* runs off the end of the text.
closing_brace(code, i, depth) ==
    LET breaks == {j \in i..Len(code) :
                      /\ Ch(code, j) = "}"
                      /\ depth + count_char(code, i, j, "{")
                               - count_char(code, i, j, "}") = 0}
    IN  IF breaks = {} THEN 0
        ELSE CHOOSE j \in breaks : \A k \in breaks : j <= k

\* _extract_switch_body(code, start_pos): start_pos is match.end() of the
\* switch pattern, the position after the "{" it matched; the depth counter
\* starts at 0 there.  end_pos stays start_pos when the loop never breaks.
extract_switch_body(code, start_pos) ==
    LET close == closing_brace(code, start_pos, 0)
    IN  IF close = 0 THEN "" ELSE SubSeq(code, start_pos, close - 1)

\* pre_context.split('\n')[-1]: the text after the last line break.
RECURSIVE last_line(_)
last_line(s) ==
    LET j == SkipUntil(s, 1, {"\n"})
    IN  IF j > Len(s) THEN s ELSE last_line(SubSeq(s, j + 1, Len(s)))

\* body[max(0, match.start() - 20):match.start()]
pre_context(body, start) ==
    SubSeq(body, IF start - LookBack > 1 THEN start - LookBack ELSE 1, start - 1)

(***************************************************************************)
(* Data model: Port, Node, Connection                                      *)
(***************************************************************************)

\* Optional values: None, or Some(v).
None == <<>>
Some(v) == <<v>>

\* An empty dict.
EmptyDict == <<>>

\* Port(name, port_type, data_type=None, default_value=None)
Port(name, port_type, data_type) ==
    [name |-> name, port_type |-> port_type, data_type |-> data_type,
     default_value |-> None]

CONTROL_INPUT == "control_input"
CONTROL_OUTPUT == "control_output"
VALUE_INPUT == "value_input"
VALUE_OUTPUT == "value_output"

\* The keys of UNITY_EVENTS; every entry maps its key K to
\* "Unity.VisualScripting.K".
UNITY_EVENTS ==
    {"Start", "Update", "Awake", "OnEnable", "OnDisable", "OnDestroy",
     "FixedUpdate", "LateUpdate", "OnTriggerEnter", "OnTriggerExit",
     "OnTriggerStay", "OnCollisionEnter", "OnCollisionExit", "OnCollisionStay"}

\* TYPE_MAPPINGS.get(t, t)
TYPE_MAPPINGS(t) ==
    CASE t = "int" -> "System.Int32"
      [] t = "float" -> "System.Single"
      [] t = "double" -> "System.Double"
      [] t = "bool" -> "System.Boolean"
      [] t = "string" -> "System.String"
      [] t = "Vector2" -> "UnityEngine.Vector2"
      [] t = "Vector3" -> "UnityEngine.Vector3"
      [] t = "Quaternion" -> "UnityEngine.Quaternion"
      [] t = "GameObject" -> "UnityEngine.GameObject"
      [] t = "Transform" -> "UnityEngine.Transform"
      [] OTHER -> t

(***************************************************************************)
(* Generated tokens.  uuid.uuid4() and the hash of its text are opaque:    *)
(* the k-th token drawn in a process is modelled as its serial number k    *)
(* (tokens are pairwise distinct) together with the value hash() returns   *)
(* for it, which is drawn from one of a few arithmetic streams picked when *)
(* the process starts (variable `entropy').  One stream gives every token  *)
(* of a document its own residue modulo 10000; the other starts at a       *)
(* negative hash and gives tokens two apart the same residue.             *)
(***************************************************************************)

Entropy ==
    {[base |-> 4000, stride |-> 1],
     [base |-> -10000, stride |-> 5000]}

\* The range of the display identifier: hash % 10000.
IdRange == 10000

\* The generator's counters an operation reads and advances: the layout
\* cursor (self._position_x, self._position_y) and the number of tokens
\* drawn so far.
Gen(x, y, n, e) == [position_x |-> x, position_y |-> y, serial |-> n, entropy |-> e]

\* _new_guid(): the next token.
new_guid(g) ==
    [serial |-> g.serial + 1,
     hash |-> g.entropy.base + g.entropy.stride * (g.serial + 1)]

\* The layout constants of _next_position.
StepX == 250
MaxX == 1000
StepY == 150

\* _next_position(): the position returned.
next_position(g) == <<g.position_x, g.position_y>>

\* A variant of position_after that starts a new row as soon as the cursor
\* reaches the width threshold.
position_after_narrow(g) ==
    IF g.position_x + StepX >= MaxX
    THEN [g EXCEPT !.position_x = 0, !.position_y = g.position_y + StepY]
    ELSE [g EXCEPT !.position_x = g.position_x + StepX]

\* _next_position(): the cursor afterwards.
position_after(g) ==
    IF g.position_x + StepX > MaxX
    THEN [g EXCEPT !.position_x = 0, !.position_y = g.position_y + StepY]
    ELSE [g EXCEPT !.position_x = g.position_x + StepX]

\* The counters after one Node was constructed: one token, one position.
node_made(g) == [position_after(g) EXCEPT !.serial = g.serial + 1]

\* The counters after one Connection was constructed: one token.
conn_made(g) == [g EXCEPT !.serial = g.serial + 1]

\* Node(guid, node_type, position, category, ports, default_values,
\*      member_info, description)
Node(g, node_type, category, ports, default_values, member_info) ==
    [guid |-> new_guid(g),
     node_type |-> node_type,
     position |-> next_position(g),
     category |-> category,
     ports |-> ports,
     default_values |-> default_values,
     member_info |-> member_info,
     description |-> None]

create_event_node(g, event_name) ==
    Node(g,
         IF event_name \in UNITY_EVENTS
         THEN "Unity.VisualScripting." \o event_name
         ELSE "Unity.VisualScripting.Start",
         "event",
         <<Port("trigger", CONTROL_OUTPUT, None)>>,
         EmptyDict, None)

\* [Port(str(i), VALUE_INPUT, param["type"]) for i, param in enumerate(parameters)]
indexed_param_ports(parameters) ==
    [i \in 1..Len(parameters) |->
        Port(Str(i - 1), VALUE_INPUT, Some(parameters[i].type))]

\* _create_invoke_node(method_name, target_type, parameters) with the
\* default return_type=None: no result port.
create_invoke_node(g, method_name, target_type, parameters) ==
    Node(g, "Unity.VisualScripting.InvokeMember", "invoke",
         <<Port("enter", CONTROL_INPUT, None), Port("exit", CONTROL_OUTPUT, None)>>
            \o indexed_param_ports(parameters),
         EmptyDict,
         Some([name |-> method_name,
               parameterTypes |-> [i \in 1..Len(parameters) |-> parameters[i].type],
               targetType |-> target_type,
               targetTypeName |-> target_type,
               version |-> "A"]))

\* _create_literal_node(value, value_type)
create_literal_node(g, value, value_type) ==
    LET mapped_type == TYPE_MAPPINGS(value_type)
    IN  Node(g, "Unity.VisualScripting.Literal", "data",
             <<Port("output", VALUE_OUTPUT, Some(mapped_type))>>,
             [type |-> mapped_type,
              value |-> [content |-> value, type |-> mapped_type]],
             None)

create_if_node(g) ==
    Node(g, "Unity.VisualScripting.If", "flow",
         <<Port("enter", CONTROL_INPUT, None),
           Port("condition", VALUE_INPUT, Some("System.Boolean")),
           Port("true", CONTROL_OUTPUT, None),
           Port("false", CONTROL_OUTPUT, None)>>,
         EmptyDict, None)

create_for_node(g) ==
    Node(g, "Unity.VisualScripting.For", "flow",
         <<Port("enter", CONTROL_INPUT, None),
           Port("firstIndex", VALUE_INPUT, Some("System.Int32")),
           Port("lastIndex", VALUE_INPUT, Some("System.Int32")),
           Port("step", VALUE_INPUT, Some("System.Int32")),
           Port("body", CONTROL_OUTPUT, None),
           Port("exit", CONTROL_OUTPUT, None),
           Port("currentIndex", VALUE_OUTPUT, Some("System.Int32"))>>,
         EmptyDict, None)

create_while_node(g) ==
    Node(g, "Unity.VisualScripting.While", "flow",
         <<Port("enter", CONTROL_INPUT, None),
           Port("condition", VALUE_INPUT, Some("System.Boolean")),
           Port("body", CONTROL_OUTPUT, None),
           Port("exit", CONTROL_OUTPUT, None)>>,
         EmptyDict, None)

\* _create_foreach_node() with the default collection_type.
create_foreach_node(g) ==
    Node(g, "Unity.VisualScripting.ForEach", "flow",
         <<Port("enter", CONTROL_INPUT, None),
           Port("collection", VALUE_INPUT, Some("System.Collections.IEnumerable")),
           Port("body", CONTROL_OUTPUT, None),
           Port("exit", CONTROL_OUTPUT, None),
           Port("currentItem", VALUE_OUTPUT, Some("System.Object"))>>,
         EmptyDict, None)

create_switch_node(g, num_cases) ==
    Node(g, "Unity.VisualScripting.SwitchOnInteger", "flow",
         <<Port("enter", CONTROL_INPUT, None),
           Port("selector", VALUE_INPUT, Some("System.Int32"))>>
            \o [i \in 1..num_cases |-> Port(Str(i - 1), CONTROL_OUTPUT, None)]
            \o <<Port("default", CONTROL_OUTPUT, None)>>,
         EmptyDict, None)

\* operation_map.get(operation, GenericAdd)[0] of _create_arithmetic_node
arithmetic_type(operation) ==
    CASE operation = "+" -> "Unity.VisualScripting.GenericAdd"
      [] operation = "-" -> "Unity.VisualScripting.GenericSubtract"
      [] operation = "*" -> "Unity.VisualScripting.GenericMultiply"
      [] operation = "/" -> "Unity.VisualScripting.GenericDivide"
      [] operation = "%" -> "Unity.VisualScripting.GenericModulo"
      [] OTHER -> "Unity.VisualScripting.GenericAdd"

create_arithmetic_node(g, operation) ==
    Node(g, arithmetic_type(operation), "operator",
         <<Port("a", VALUE_INPUT, Some("System.Object")),
           Port("b", VALUE_INPUT, Some("System.Object")),
           Port("result", VALUE_OUTPUT, Some("System.Object"))>>,
         EmptyDict, None)

\* operation_map.get(operation, GenericEqual) of _create_comparison_node
comparison_type(operation) ==
    CASE operation = "==" -> "Unity.VisualScripting.GenericEqual"
      [] operation = "!=" -> "Unity.VisualScripting.GenericNotEqual"
      [] operation = "<" -> "Unity.VisualScripting.GenericLess"
      [] operation = ">" -> "Unity.VisualScripting.GenericGreater"
      [] operation = "<=" -> "Unity.VisualScripting.GenericLessOrEqual"
      [] operation = ">=" -> "Unity.VisualScripting.GenericGreaterOrEqual"
      [] OTHER -> "Unity.VisualScripting.GenericEqual"

create_comparison_node(g, operation) ==
    Node(g, comparison_type(operation), "operator",
         <<Port("a", VALUE_INPUT, Some("System.Object")),
           Port("b", VALUE_INPUT, Some("System.Object")),
           Port("result", VALUE_OUTPUT, Some("System.Boolean"))>>,
         EmptyDict, None)

create_yield_return_node(g) ==
    Node(g, "Unity.VisualScripting.YieldReturn", "flow",
         <<Port("enter", CONTROL_INPUT, None),
           Port("exit", CONTROL_OUTPUT, None),
           Port("instruction", VALUE_INPUT, Some("UnityEngine.YieldInstruction"))>>,
         EmptyDict, None)

create_wait_for_seconds_node(g, seconds) ==
    Node(g, "Unity.VisualScripting.WaitForSeconds", "data",
         <<Port("seconds", VALUE_INPUT, Some("System.Single")),
           Port("result", VALUE_OUTPUT, Some("UnityEngine.WaitForSeconds"))>>,
         [seconds |-> seconds],
         None)

\* _create_custom_invoke_node(method_name, target_type, parameters,
\*                            return_type="void", is_static=False),
\* as _process_method calls it: a target port, no result port.
create_custom_invoke_node(g, method_name, target_type, parameters) ==
    Node(g, "Unity.VisualScripting.InvokeMember", "invoke",
         <<Port("enter", CONTROL_INPUT, None),
           Port("exit", CONTROL_OUTPUT, None),
           Port("target", VALUE_INPUT, Some(target_type))>>
            \o [i \in 1..Len(parameters) |->
                   Port("%" \o parameters[i].name, VALUE_INPUT,
                        Some(TYPE_MAPPINGS(parameters[i].type)))],
         EmptyDict,
         Some([name |-> method_name,
               parameterTypes |->
                  [i \in 1..Len(parameters) |-> TYPE_MAPPINGS(parameters[i].type)],
               targetType |-> target_type,
               targetTypeName |-> target_type,
               parameterNames |-> [i \in 1..Len(parameters) |-> parameters[i].name],
               version |-> "A"]))

create_set_variable_node(g, var_name, var_type) ==
    Node(g, "Unity.VisualScripting.SetVariable", "variable",
         <<Port("enter", CONTROL_INPUT, None),
           Port("exit", CONTROL_OUTPUT, None),
           Port("input", VALUE_INPUT, Some(var_type))>>,
         [name |-> var_name],
         None)

\* The "$id" entry of Node.to_dict(): str(abs(hash(self.guid)) % 10000).
display_id(guid) == Str(Abs(guid.hash) % IdRange)

\* Node.to_dict()
node_to_dict(node) ==
    LET base ==
            ("guid" :> node.guid) @@ ("$type" :> node.node_type)
            @@ ("$version" :> "A") @@ ("$id" :> display_id(node.guid))
            @@ ("position" :> [x |-> node.position[1], y |-> node.position[2]])
            @@ ("defaultValues" :> node.default_values)
        summary ==
            IF node.description # None /\ node.description[1] # ""
            THEN "summary" :> node.description[1] ELSE EmptyDict
        member ==
            IF node.member_info # None
            THEN ("member" :> node.member_info[1]) @@ ("chainable" :> FALSE)
                 @@ ("parameterNames" :>
                        IF "parameterNames" \in DOMAIN node.member_info[1]
                        THEN node.member_info[1].parameterNames ELSE <<>>)
            ELSE EmptyDict
        literal ==
            IF node.node_type = "Unity.VisualScripting.Literal"
               /\ "type" \in DOMAIN node.default_values
            THEN ("type" :> node.default_values.type)
                 @@ ("value" :> node.default_values.value)
            ELSE EmptyDict
    IN  base @@ summary @@ member @@ literal

\* _create_connection(source_node, source_key, dest_node, dest_key, is_control)
\* source_node and dest_node are not fields of Connection: they record which
\* Node objects were passed (by their tokens), so that a property can speak
\* of the nodes a connection was made between.
create_connection(g, source_node, source_key, dest_node, dest_key, is_control) ==
    [guid |-> new_guid(g),
     source_unit_id |-> node_to_dict(source_node)["$id"],
     source_key |-> source_key,
     destination_unit_id |-> node_to_dict(dest_node)["$id"],
     destination_key |-> dest_key,
     connection_type |->
        IF is_control THEN "Unity.VisualScripting.ControlConnection"
        ELSE "Unity.VisualScripting.ValueConnection",
     source_node |-> source_node.guid,
     dest_node |-> dest_node.guid]

\* Connection.to_dict()
connection_to_dict(conn) ==
    ("guid" :> conn.guid) @@ ("$type" :> conn.connection_type)
    @@ ("sourceUnit" :> [ref |-> conn.source_unit_id])
    @@ ("sourceKey" :> conn.source_key)
    @@ ("destinationUnit" :> [ref |-> conn.destination_unit_id])
    @@ ("destinationKey" :> conn.destination_key)

(***************************************************************************)
(* float(text), as _process_method uses it for WaitForSeconds arguments    *)
(***************************************************************************)

\* The position after a run of digits \d(_?\d)* starting at i (i when there
\* is none): float() lets single underscores stand between digits.
RECURSIVE DigitRun(_, _)
DigitRun(t, i) ==
    IF Ch(t, i) \notin Digits THEN i
    ELSE IF Ch(t, i + 1) = "_" /\ Ch(t, i + 2) \in Digits THEN DigitRun(t, i + 2)
    ELSE IF Ch(t, i + 1) \in Digits THEN DigitRun(t, i + 1)
    ELSE i + 1

\* The digits of t without the underscores.
RECURSIVE OnlyDigits(_)
OnlyDigits(t) ==
    IF t = "" THEN ""
    ELSE (IF Ch(t, 1) \in Digits THEN Ch(t, 1) ELSE "") \o OnlyDigits(SubSeq(t, 2, Len(t)))

UpperOf(c) ==
    CASE c = "i" -> "I" [] c = "n" -> "N" [] c = "f" -> "F" [] c = "t" -> "T"
      [] c = "y" -> "Y" [] c = "a" -> "A" [] OTHER -> c

\* t equals the lower-case word w up to the case of its letters.
EqIgnoreCase(t, w) ==
    Len(t) = Len(w) /\ \A i \in 1..Len(w) : Ch(t, i) \in {Ch(w, i), UpperOf(Ch(w, i))}

\* m * 10^e with the factors of ten moved out of m.
RECURSIVE Normalised(_, _)
Normalised(m, e) ==
    IF m = 0 THEN [mantissa |-> 0, exp10 |-> 0]
    ELSE IF m % 10 = 0 THEN Normalised(m \div 10, e + 1)
    ELSE [mantissa |-> m, exp10 |-> e]

\* float(text): `ok' is FALSE where Python raises ValueError.  The value is
\* kept as the decimal number the text denotes (sign, mantissa * 10^exp10)
\* or as inf / nan; the rounding to a binary double is not modelled.
float_of(text) ==
    LET t == Strip(text)
        signed == Ch(t, 1) \in {"+", "-"}
        negative == Ch(t, 1) = "-"
        b == IF signed THEN 2 ELSE 1
        i1 == DigitRun(t, b)
        i2 == IF Ch(t, i1) = "." THEN DigitRun(t, i1 + 1) ELSE i1
        frac_from == IF Ch(t, i1) = "." THEN i1 + 1 ELSE i1
        int_digits == OnlyDigits(SubSeq(t, b, i1 - 1))
        frac_digits == OnlyDigits(SubSeq(t, frac_from, i2 - 1))
        has_exp == Ch(t, i2) \in {"e", "E"}
        e1 == IF Ch(t, i2 + 1) \in {"+", "-"} THEN i2 + 2 ELSE i2 + 1
        e2 == DigitRun(t, e1)
        exponent ==
            IF has_exp
            THEN (IF Ch(t, i2 + 1) = "-" THEN -1 ELSE 1)
                 * ParseInt(OnlyDigits(SubSeq(t, e1, e2 - 1)))
            ELSE 0
        number ==
            /\ Len(int_digits) + Len(frac_digits) > 0
            /\ has_exp => e2 > e1
            /\ (IF has_exp THEN e2 ELSE i2) = Len(t) + 1
        rest == SubSeq(t, b, Len(t))
        special ==
            IF EqIgnoreCase(rest, "inf") \/ EqIgnoreCase(rest, "infinity") THEN "inf"
            ELSE IF EqIgnoreCase(rest, "nan") THEN "nan" ELSE ""
        n == Normalised(ParseInt(int_digits \o frac_digits),
                        exponent - Len(frac_digits))
    IN  IF number
        THEN [ok |-> TRUE,
              value |-> [negative |-> negative, special |-> "",
                         mantissa |-> n.mantissa, exp10 |-> n.exp10]]
        ELSE IF special # ""
        THEN [ok |-> TRUE,
              value |-> [negative |-> negative, special |-> special,
                         mantissa |-> 0, exp10 |-> 0]]
        ELSE [ok |-> FALSE]

(***************************************************************************)
(* Inputs: the methods CSharpParser hands to the generator.  A method is   *)
(* the part of the parser's dict that _process_method reads: name, body    *)
(* and comments.  A body is the brace-delimited text of a method whose     *)
(* statements, one per line, are drawn from Statements.                    *)
(***************************************************************************)

\* The most statements in the methods of one document.
MaxStmts == 2

\* The most methods in one document.
MaxMethods == 2

Statements ==
    {"for (int i = 0; i < 5; i++) { }",
     "for (var k = a; k <= n; k += 2) { }",
     "while (run) { yield return null; }",
     "foreach (var e in list) { Debug.Log(e); }",
     "switch (m) { case 1: break; case 2: break; }",
     "switch (m) { case 1: { v = t.Get(); } case 2: break; }",
     "Debug.Log(\"hi\");",
     "Debug.Log(\"a\" + \"b\");",
     "if (x > 3) { }",
     "if (a <= b) { y = a + 1; }",
     "if (ok) { x = 1; }",
     "if (a < b && c != d) { }",
     "if (n == obj.Count()) { }",
     "yield return new WaitForSeconds(2);",
     "obj.Run(a, b);"}

MethodNames == {"Start", "Helper"}

MethodComments == {"", "Runs once"}

RECURSIVE Lines(_)
Lines(stmts) ==
    IF stmts = <<>> THEN "" ELSE "  " \o Head(stmts) \o "\n" \o Lines(Tail(stmts))

\* The body of a method with the given statements.
BodyOf(stmts) == "{\n" \o Lines(stmts) \o "}"

\* The statement sequences of at most n statements.
StmtSeqs(n) == UNION {[1..k -> Statements] : k \in 0..n}

RECURSIVE TotalStmts(_)
TotalStmts(bodies) ==
    IF bodies = <<>> THEN 0 ELSE Len(Head(bodies)) + TotalStmts(Tail(bodies))

\* The documents: one method of at most MaxStmts statements, or 2..MaxMethods
\* methods holding fewer than MaxStmts statements between them.
Documents ==
    UNION {
        { [j \in 1..k |-> [name |-> names[j], body |-> BodyOf(bodies[j]),
                           comments |-> comments[j]]] :
            names \in [1..k -> MethodNames],
            comments \in [1..k -> MethodComments],
            bodies \in { b \in [1..k -> StmtSeqs(MaxStmts)] :
                           TotalStmts(b) <= MaxStmts - (IF k > 1 THEN 1 ELSE 0) } }
        : k \in 1..MaxMethods }

(***************************************************************************)
(* CSharpParser: the methods of a text                                     *)
(***************************************************************************)

\* (\w+(?:<[^>]+>)?)\s+(\w+)\s*\(([^)]*)\)\s*\{ matched at position j: the
\* return type, the name, the parameter list and the opening brace.
method_core(s, j) ==
    LET p1 == SkipWhile(s, j, WordChars)                 \* \w+
        c1 == SkipUntil(s, p1 + 1, {">"})                \* <[^>]+      ">" at c1
        p2 == IF Ch(s, p1) = "<" /\ c1 > p1 + 1 /\ Ch(s, c1) = ">"
              THEN c1 + 1 ELSE p1                        \* (?:<[^>]+>)?
        p3 == SkipWhile(s, p2, SpaceChars)               \* \s+
        p4 == SkipWhile(s, p3, WordChars)                \* (\w+)
        p5 == SkipWhile(s, p4, SpaceChars)               \* \s*         "(" at p5
        p6 == SkipUntil(s, p5 + 1, {")"})                \* \(([^)]*)   ")" at p6
        p7 == SkipWhile(s, p6 + 1, SpaceChars)           \* \s*         "{" at p7
    IN  IF /\ p1 > j
           /\ p3 > p2
           /\ p4 > p3
           /\ Ch(s, p5) = "("
           /\ Ch(s, p6) = ")"
           /\ Ch(s, p7) = "{"
        THEN [end |-> p7 + 1, name |-> SubSeq(s, p3, p4 - 1)]
        ELSE NoMatch

\* (word1|word2|...)?\s* from each of the positions qs: the positions the
\* rest of the pattern can go on from.
optional_word(s, qs, words) ==
    qs \cup {SkipWhile(s, q + Len(w), SpaceChars) :
                <<q, w>> \in {x \in qs \X words : At(s, x[1], x[2])}}

\* method_pattern matched at position i: an optional attribute in brackets,
\* the optional modifiers in their order, and the core.  Whichever modifiers
\* the match takes, it ends at the same brace and has the same name; the
\* pattern takes as many as it can.
method_pattern(s, i) ==
    LET c0 == SkipUntil(s, i + 1, {"]"})                 \* \[[^\]]+    "]" at c0
        a1 == IF Ch(s, i) = "[" /\ c0 > i + 1 /\ Ch(s, c0) = "]"
              THEN c0 + 1 ELSE i                         \* (?:\[(?:[^\]]+)\])?
        q0 == {SkipWhile(s, a1, SpaceChars)}             \* \s*
        q1 == optional_word(s, q0, {"public", "private", "protected", "internal"})
        q2 == optional_word(s, q1, {"static"})
        q3 == optional_word(s, q2, {"virtual", "override", "abstract"})
        q4 == optional_word(s, q3, {"async"})
        hits == {q \in q4 : method_core(s, q).end # 0}
    IN  IF hits = {} THEN NoMatch
        ELSE LET core == method_core(s, CHOOSE q \in hits : \A k \in hits : q >= k)
             IN  [start |-> i, end |-> core.end, method_name |-> core.name]

\* The next match of method_pattern in s from position i on.
method_search(s, i) ==
    LET starts == {j \in i..Len(s) : method_pattern(s, j).end # 0}
    IN  IF starts = {} THEN NoMatch
        ELSE method_pattern(s, CHOOSE j \in starts : \A k \in starts : j <= k)

\* A variant of extract_body that leaves the closing brace out.
extract_body_exclusive(text, start) ==
    LET close == closing_brace(text, start, 0)
    IN  IF close = 0 THEN "" ELSE SubSeq(text, start, close - 1)

\* _extract_body(start_pos): the text from start_pos to the "}" at which
\* the depth counter, 0 at start_pos, comes back to zero, that "}" included;
\* end_pos stays start_pos, and the result is empty, when it never does.
extract_body(text, start) ==
    LET close == closing_brace(text, start, 0)
    IN  IF close = 0 THEN "" ELSE SubSeq(text, start, close)

\* s.split('\n')
RECURSIVE split_lines(_)
split_lines(s) ==
    LET j == SkipUntil(s, 1, {"\n"})
    IN  IF j > Len(s) THEN <<s>>
        ELSE <<SubSeq(s, 1, j - 1)>> \o split_lines(SubSeq(s, j + 1, Len(s)))

\* s.lstrip(chars) and s.rstrip(chars)
lstrip_chars(s, chars) == SubSeq(s, SkipWhile(s, 1, chars), Len(s))
RECURSIVE rstrip_chars(_, _)
rstrip_chars(s, chars) ==
    IF Len(s) > 0 /\ Ch(s, Len(s)) \in chars
    THEN rstrip_chars(SubSeq(s, 1, Len(s) - 1), chars) ELSE s

\* lines[-n:]
last_lines(lines, n) ==
    IF Len(lines) <= n THEN lines ELSE SubSeq(lines, Len(lines) - n + 1, Len(lines))

\* The window of lines _extract_method_comments looks at.
CommentWindow == 5

\* Lines 225-233: the loop over the lines, the last one first; what it
\* inserts at the front of `comments' ends up in the order of the lines.
RECURSIVE harvest(_)
harvest(lines) ==
    IF lines = <<>> THEN <<>>
    ELSE LET line == Strip(lines[Len(lines)])
             before == SubSeq(lines, 1, Len(lines) - 1)
         IN  IF StartsWith(line, "//")
             THEN Append(harvest(before), Strip(SubSeq(line, 3, Len(line))))
             ELSE IF StartsWith(line, "/*") \/ StartsWith(line, "*")
             THEN Append(harvest(before),
                         Strip(rstrip_chars(lstrip_chars(line, {"/", "*"}), {"*", "/"})))
             ELSE IF line # "" /\ ~StartsWith(line, "[")
             THEN <<>>
             ELSE harvest(before)

\* ' '.join(words)
RECURSIVE join_spaced(_)
join_spaced(words) ==
    IF words = <<>> THEN ""
    ELSE IF Len(words) = 1 THEN words[1]
    ELSE words[1] \o " " \o join_spaced(Tail(words))

\* _extract_method_comments(method_pos)
extract_method_comments(text, method_pos) ==
    join_spaced(harvest(last_lines(split_lines(SubSeq(text, 1, method_pos - 1)),
                                   CommentWindow)))

\* _extract_methods: the loop over the matches of method_pattern from
\* position i on; of each method the name, the body and the comments.
RECURSIVE extract_methods(_, _)
extract_methods(text, i) ==
    LET m == method_search(text, i)
    IN  IF m.end = 0 THEN <<>>
        ELSE <<[name |-> m.method_name,
                body |-> extract_body(text, m.end - 1),
                comments |-> extract_method_comments(text, m.start)]>>
             \o extract_methods(text, m.end)

\* A text the parser finds the given methods in: a class with the methods,
\* each under a line with its comments when it has any.
RECURSIVE MethodTexts(_)
MethodTexts(ms) ==
    IF ms = <<>> THEN ""
    ELSE (IF ms[1].comments = "" THEN "" ELSE "  // " \o ms[1].comments \o "\n")
         \o "  void " \o ms[1].name \o "() " \o ms[1].body \o "\n"
         \o MethodTexts(Tail(ms))
SourceOf(ms) == "class C {\n" \o MethodTexts(ms) \o "}"

(***************************************************************************)
(* State                                                                   *)
(***************************************************************************)

VARIABLES
    cs_code,            \* the text convert() was called with: CSharpParser's code
    start_pos,          \* the position _extract_body is called with (0: no call)
    returned,           \* what the call returned (None: it has not returned)
    methods,            \* self.parser.methods
    entropy,            \* the stream the tokens' hashes are drawn from
    serial,             \* the number of tokens drawn so far
    position_x,         \* self._position_x
    position_y,         \* self._position_y
    self_nodes,         \* self.nodes
    self_connections,   \* self.connections
    elements,           \* generate_graph's elements
    mi,                 \* generate_graph's loop over methods: the index of `method'
    pc,                 \* where control stands (see below)
    pos,                \* where the current re.finditer scan stands in body
    match,              \* the match the loop body is to handle (NoMatch: none yet)
    nodes,              \* _process_method's nodes
    connections,        \* _process_method's connections
    last_node,          \* _process_method's last_node, as an index into nodes (0: None)
    event_node,         \* _process_method's event_node, as an index into nodes (0: None)
    previous            \* what an earlier convert() of the same text produced (None: no
                        \* earlier call): the elements it returned and the Node and
                        \* Connection objects they were serialized from

vars ==
    <<cs_code, start_pos, returned, methods, entropy, serial, position_x, position_y, self_nodes,
      self_connections, elements, mi, pc, pos, match, nodes, connections,
      last_node, event_node, previous>>

\* pc is "begin" (generate_graph is about to call _process_method on
\* methods[mi]), one of Categories (the loop over that category's matches),
\* "comments" (line 935), "serialize" (line 613) or "done".  Within a loop
\* re.finditer is lazy: the loop asks it for the next match (Scan), then runs
\* its body on that match.

method == methods[mi]
body == method.body

\* The generator's counters, as the operations thread them.
G == Gen(position_x, position_y, serial, entropy)

\* Store the counters g.
SetG(g) ==
    /\ position_x' = g.position_x
    /\ position_y' = g.position_y
    /\ serial' = g.serial

Init ==
    /\ methods \in Documents
    /\ cs_code = SourceOf(methods)
    /\ start_pos = 0
    /\ returned = None
    /\ entropy \in Entropy
    /\ serial = 0
    /\ position_x = 0
    /\ position_y = 0
    /\ self_nodes = <<>>
    /\ self_connections = <<>>
    /\ elements = <<>>
    /\ mi = 1
    /\ pc = "begin"
    /\ pos = 1
    /\ match = NoMatch
    /\ nodes = <<>>
    /\ connections = <<>>
    /\ last_node = 0
    /\ event_node = 0
    /\ previous = None

(***************************************************************************)
(* _process_method                                                         *)
(***************************************************************************)

\* A variant of BeginMethod that leaves event_node as the method before left
\* it when the method is no lifecycle method.
BeginMethodStaleEvent ==
    /\ pc = "begin"
    /\ mi <= Len(methods)
    /\ IF method.name \in UNITY_EVENTS
       THEN /\ nodes' = <<create_event_node(G, method.name)>>
            /\ SetG(node_made(G))
            /\ event_node' = 1
            /\ last_node' = 1
       ELSE /\ nodes' = <<>>
            /\ event_node' = event_node
            /\ last_node' = 0
            /\ UNCHANGED <<serial, position_x, position_y>>
    /\ connections' = <<>>
    /\ pc' = Categories[1]
    /\ pos' = 1
    /\ UNCHANGED <<cs_code, start_pos, returned,
                   methods, entropy, self_nodes, self_connections, elements, mi,
                   match, previous>>

\* Lines 649-659: the locals, and the Event node of a lifecycle method.
BeginMethod ==
    /\ pc = "begin"
    /\ mi <= Len(methods)
    /\ IF method.name \in UNITY_EVENTS
       THEN /\ nodes' = <<create_event_node(G, method.name)>>
            /\ SetG(node_made(G))
            /\ event_node' = 1
            /\ last_node' = 1
       ELSE /\ nodes' = <<>>
            /\ event_node' = 0
            /\ last_node' = 0
            /\ UNCHANGED <<serial, position_x, position_y>>
    /\ connections' = <<>>
    /\ pc' = Categories[1]
    /\ pos' = 1
    /\ UNCHANGED <<cs_code, start_pos, returned,
                   methods, entropy, self_nodes, self_connections, elements, mi,
                   match, previous>>

\* A variant of cursor_key that takes every cursor node for a construct.
cursor_key_exit == "exit"

\* "trigger" if last_node == event_node else "exit"
cursor_key == IF last_node = event_node THEN "trigger" ELSE "exit"

\* A variant of connect_cursor that never wires the new node to the cursor.
connect_cursor_never(g, node) == <<>>

\* if last_node: connections.append(self._create_connection(last_node,
\*     <cursor key>, node, "enter")) -- the connections this appends.
connect_cursor(g, node) ==
    IF last_node # 0
    THEN <<create_connection(g, nodes[last_node], cursor_key, node, "enter", TRUE)>>
    ELSE <<>>

\* The counters after connect_cursor.
cursor_connected(g) == IF last_node # 0 THEN conn_made(g) ELSE g

\* What every category leaves alone.
Frame ==
    UNCHANGED <<cs_code, start_pos, returned,
                methods, entropy, self_nodes, self_connections, elements, mi,
                event_node, previous>>

\* A variant of int_or that always takes the default.
int_or_default(text, default) == default

\* int(text) if text.isdigit() else default
int_or(text, default) == IF IsDigit(text) THEN ParseInt(text) ELSE default

\* Lines 661-694: one iteration of the loop over the for-loops.
ForLoop ==
    /\ pc = "for"
    /\ LET m == match
           for_node == create_for_node(G)
           g1 == node_made(G)
           start_literal == create_literal_node(g1, int_or(m.start_val, 0), "int")
           g2 == node_made(g1)
           end_literal == create_literal_node(g2, int_or(m.end_val, 10), "int")
           g3 == node_made(g2)
           g4 == cursor_connected(g3)
           g5 == conn_made(g4)
       IN  /\ m.end # 0
           /\ nodes' = nodes \o <<for_node, start_literal, end_literal>>
           /\ connections' = connections
                \o connect_cursor(g3, for_node)
                \o <<create_connection(g4, start_literal, "output", for_node, "%firstIndex", FALSE),
                     create_connection(g5, end_literal, "output", for_node, "%lastIndex", FALSE)>>
           /\ SetG(conn_made(g5))
           /\ last_node' = Len(nodes) + 1
           /\ pos' = m.end
           /\ match' = NoMatch
    /\ pc' = pc
    /\ Frame

\* The loops over while, foreach: one node, wired from the cursor.
\* Lines 696-711.
WhileLoop ==
    /\ pc = "while"
    /\ LET m == match
           while_node == create_while_node(G)
           g1 == node_made(G)
       IN  /\ m.end # 0
           /\ nodes' = Append(nodes, while_node)
           /\ connections' = connections \o connect_cursor(g1, while_node)
           /\ SetG(cursor_connected(g1))
           /\ last_node' = Len(nodes) + 1
           /\ pos' = m.end
           /\ match' = NoMatch
    /\ pc' = pc
    /\ Frame

\* Lines 713-730.
ForeachLoop ==
    /\ pc = "foreach"
    /\ LET m == match
           foreach_node == create_foreach_node(G)
           g1 == node_made(G)
       IN  /\ m.end # 0
           /\ nodes' = Append(nodes, foreach_node)
           /\ connections' = connections \o connect_cursor(g1, foreach_node)
           /\ SetG(cursor_connected(g1))
           /\ last_node' = Len(nodes) + 1
           /\ pos' = m.end
           /\ match' = NoMatch
    /\ pc' = pc
    /\ Frame

\* Lines 737-740: the number of case outputs of the switch matched by m.
num_cases(code, m) == count_cases(extract_switch_body(code, m.end), 1)

\* Lines 732-752.
Switch ==
    /\ pc = "switch"
    /\ LET m == match
           switch_node == create_switch_node(G, num_cases(body, m))
           g1 == node_made(G)
       IN  /\ m.end # 0
           /\ nodes' = Append(nodes, switch_node)
           /\ connections' = connections \o connect_cursor(g1, switch_node)
           /\ SetG(cursor_connected(g1))
           /\ last_node' = Len(nodes) + 1
           /\ pos' = m.end
           /\ match' = NoMatch
    /\ pc' = pc
    /\ Frame

\* log_arg.startswith('"') and log_arg.endswith('"')
is_quoted(log_arg) == StartsWith(log_arg, "\"") /\ EndsWith(log_arg, "\"")

\* log_arg[1:-1]
unquoted(log_arg) == SubSeq(log_arg, 2, Len(log_arg) - 1)

\* Lines 754-785.
DebugLog ==
    /\ pc = "debug_log"
    /\ LET m == match
           log_arg == Strip(m.group1)
           debug_node == create_invoke_node(G, "Log", "UnityEngine.Debug",
                            <<[type |-> "System.Object", name |-> "message"]>>)
           g1 == node_made(G)
           g2 == cursor_connected(g1)
           literal_node == create_literal_node(g2, unquoted(log_arg), "string")
           g3 == node_made(g2)
       IN  /\ m.end # 0
           /\ IF is_quoted(log_arg)
              THEN /\ nodes' = nodes \o <<debug_node, literal_node>>
                   /\ connections' = connections
                        \o connect_cursor(g1, debug_node)
                        \o <<create_connection(g3, literal_node, "output",
                                               debug_node, "%message", FALSE)>>
                   /\ SetG(conn_made(g3))
              ELSE /\ nodes' = Append(nodes, debug_node)
                   /\ connections' = connections \o connect_cursor(g1, debug_node)
                   /\ SetG(g2)
           /\ last_node' = Len(nodes) + 1
           /\ pos' = m.end
           /\ match' = NoMatch
    /\ pc' = pc
    /\ Frame

\* The first operator of ops (a sequence) that occurs in text; "" when none
\* does: the `for op in ops: if op in text: ...; break' loops.
RECURSIVE first_op(_, _)
first_op(ops, text) ==
    IF ops = <<>> THEN ""
    ELSE IF Contains(text, Head(ops)) THEN Head(ops)
    ELSE first_op(Tail(ops), text)

\* A variant of comparison_ops that tries the one-character operators first.
comparison_ops_short_first == <<"<", ">", "<=", ">=", "==", "!=">>

comparison_ops == <<"<=", ">=", "==", "!=", "<", ">">>

\* Lines 802-817: the operator a comparison node is made for ("": none).
\* condition.split(op, 1) has two parts whenever op occurs in condition.
comparison_of(condition) == first_op(comparison_ops, condition)

\* Lines 787-819.
IfStatement ==
    /\ pc = "if"
    /\ LET m == match
           condition == Strip(m.group1)
           if_node == create_if_node(G)
           g1 == node_made(G)
           g2 == cursor_connected(g1)
           op == comparison_of(condition)
           comp_node == create_comparison_node(g2, op)
           g3 == node_made(g2)
       IN  /\ m.end # 0
           /\ IF op # ""
              THEN /\ nodes' = nodes \o <<if_node, comp_node>>
                   /\ connections' = connections
                        \o connect_cursor(g1, if_node)
                        \o <<create_connection(g3, comp_node, "result",
                                               if_node, "%condition", FALSE)>>
                   /\ SetG(conn_made(g3))
              ELSE /\ nodes' = Append(nodes, if_node)
                   /\ connections' = connections \o connect_cursor(g1, if_node)
                   /\ SetG(g2)
           /\ last_node' = Len(nodes) + 1
           /\ pos' = m.end
           /\ match' = NoMatch
    /\ pc' = pc
    /\ Frame

arithmetic_ops == <<"+", "-", "*", "/", "%">>

\* Lines 837-852: the operator an arithmetic node is made for ("": none).
\* The test `op in var_value and not var_value.startswith('"')' fails for
\* every op when the value starts with a double quote.
arithmetic_of(var_value) ==
    IF StartsWith(var_value, "\"") THEN "" ELSE first_op(arithmetic_ops, var_value)

\* Lines 821-854.
Assignment ==
    /\ pc = "assignment"
    /\ LET m == match
           set_var_node == create_set_variable_node(G, m.var_name, "System.Object")
           g1 == node_made(G)
           g2 == cursor_connected(g1)
           op == arithmetic_of(m.var_value)
           arith_node == create_arithmetic_node(g2, op)
           g3 == node_made(g2)
       IN  /\ m.end # 0
           /\ IF op # ""
              THEN /\ nodes' = nodes \o <<set_var_node, arith_node>>
                   /\ connections' = connections
                        \o connect_cursor(g1, set_var_node)
                        \o <<create_connection(g3, arith_node, "result",
                                               set_var_node, "%input", FALSE)>>
                   /\ SetG(conn_made(g3))
              ELSE /\ nodes' = Append(nodes, set_var_node)
                   /\ connections' = connections \o connect_cursor(g1, set_var_node)
                   /\ SetG(g2)
           /\ last_node' = Len(nodes) + 1
           /\ pos' = m.end
           /\ match' = NoMatch
    /\ pc' = pc
    /\ Frame

\* Lines 873-886: a WaitForSeconds node is made for this match.
is_timed_wait(m) ==
    /\ m.yield_type = "WaitForSeconds"
    /\ m.yield_args # ""
    /\ float_of(m.yield_args).ok

\* Lines 856-888.
YieldReturn ==
    /\ pc = "yield"
    /\ LET m == match
           yield_node == create_yield_return_node(G)
           g1 == node_made(G)
           g2 == cursor_connected(g1)
           wait_node == create_wait_for_seconds_node(g2, float_of(m.yield_args).value)
           g3 == node_made(g2)
       IN  /\ m.end # 0
           /\ IF is_timed_wait(m)
              THEN /\ nodes' = nodes \o <<yield_node, wait_node>>
                   /\ connections' = connections
                        \o connect_cursor(g1, yield_node)
                        \o <<create_connection(g3, wait_node, "result",
                                               yield_node, "%instruction", FALSE)>>
                   /\ SetG(conn_made(g3))
              ELSE /\ nodes' = Append(nodes, yield_node)
                   /\ connections' = connections \o connect_cursor(g1, yield_node)
                   /\ SetG(g2)
           /\ last_node' = Len(nodes) + 1
           /\ pos' = m.end
           /\ match' = NoMatch
    /\ pc' = pc
    /\ Frame

\* Lines 897-904: the two `continue' tests of the generic-call loop.
call_skipped(code, m) ==
    \/ m.target_obj = "Debug" /\ m.method_name = "Log"
    \/ Contains(last_line(pre_context(code, m.start)), "=")

\* Line 907.
target_type_of(target_obj) ==
    IF target_obj \in {"GameObject", "Transform", "Rigidbody"}
    THEN "UnityEngine." \o target_obj ELSE target_obj

\* Lines 910-915.
call_parameters(args_str) ==
    IF args_str = "" THEN <<>>
    ELSE [i \in 1..CountArgs(args_str, 1) |->
             [type |-> "System.Object", name |-> "arg" \o Str(i - 1)]]

\* Lines 892-904: a match the loop passes over.
SkipCall ==
    /\ pc = "method_call"
    /\ match.end # 0
    /\ call_skipped(body, match)
    /\ pos' = match.end
    /\ match' = NoMatch
    /\ pc' = pc
    /\ UNCHANGED <<nodes, connections, last_node, serial, position_x, position_y>>
    /\ Frame

\* Lines 890-933.
MethodCall ==
    /\ pc = "method_call"
    /\ LET m == match
           custom_node == create_custom_invoke_node(G, m.method_name,
                              target_type_of(m.target_obj),
                              call_parameters(m.args_str))
           g1 == node_made(G)
       IN  /\ m.end # 0
           /\ ~call_skipped(body, m)
           /\ nodes' = Append(nodes, custom_node)
           /\ connections' = connections \o connect_cursor(g1, custom_node)
           /\ SetG(cursor_connected(g1))
           /\ last_node' = Len(nodes) + 1
           /\ pos' = m.end
           /\ match' = NoMatch
    /\ pc' = pc
    /\ Frame

\* The position of category c in Categories.
CategoryIndex(c) == CHOOSE k \in 1..Len(Categories) : Categories[k] = c

\* The loop header `for match in re.finditer(pattern, body)': the next match
\* from where the scan stands; when there is none the loop ends and the next
\* category's begins, with a new scan of the whole body.
Scan ==
    /\ pc \in {Categories[k] : k \in 1..Len(Categories)}
    /\ match.end = 0
    /\ \E m \in {re_search(pc, body, pos)} :
           IF m.end # 0
           THEN /\ match' = m
                /\ UNCHANGED <<pc, pos>>
           ELSE /\ pc' = IF CategoryIndex(pc) < Len(Categories)
                         THEN Categories[CategoryIndex(pc) + 1] ELSE "comments"
                /\ pos' = 1
                /\ match' = m
    /\ UNCHANGED <<nodes, connections, last_node, serial, position_x, position_y>>
    /\ Frame

\* A variant of described in which the method's Event node is lost on the
\* way into self.nodes.
described_without_event(ns, ev, comments) ==
    IF ev # 0 THEN Tail(ns) ELSE ns

\* A variant of described that gives the comments to the first node of the
\* method, whatever it is.
described_first_node(ns, ev, comments) ==
    IF comments # "" /\ ns # <<>>
    THEN [ns EXCEPT ![1].description = Some(comments)]
    ELSE ns

\* The description line 938 gives the nodes: the Event node gets the
\* comments when there are comments, nodes and an Event node.
described(ns, ev, comments) ==
    IF comments # "" /\ ns # <<>> /\ ev # 0
    THEN [ns EXCEPT ![ev].description = Some(comments)]
    ELSE ns

\* Lines 935-940 and 610-611: the description, the return, and
\* generate_graph's extend of self.nodes and self.connections.
FinishMethod ==
    /\ pc = "comments"
    /\ self_nodes' = self_nodes \o described(nodes, event_node, method.comments)
    /\ self_connections' = self_connections \o connections
    /\ mi' = mi + 1
    /\ pc' = IF mi < Len(methods) THEN "begin" ELSE "serialize"
    /\ UNCHANGED <<cs_code, start_pos, returned,
                   methods, entropy, serial, position_x, position_y, elements,
                   pos, match, nodes, connections, last_node, event_node,
                   previous>>

\* A variant of Serialize that writes the connections before the nodes.
SerializeConnectionsFirst ==
    /\ pc = "serialize"
    /\ elements' = [i \in 1..Len(self_connections) |->
                       connection_to_dict(self_connections[i])]
                   \o [i \in 1..Len(self_nodes) |-> node_to_dict(self_nodes[i])]
    /\ pc' = "done"
    /\ UNCHANGED <<cs_code, start_pos, returned,
                   methods, entropy, serial, position_x, position_y, self_nodes,
                   self_connections, mi, pos, match, nodes, connections,
                   last_node, event_node, previous>>

\* Lines 613-617: the element sequence.
Serialize ==
    /\ pc = "serialize"
    /\ elements' = [i \in 1..Len(self_nodes) |-> node_to_dict(self_nodes[i])]
                   \o [i \in 1..Len(self_connections) |->
                          connection_to_dict(self_connections[i])]
    /\ pc' = "done"
    /\ UNCHANGED <<cs_code, start_pos, returned,
                   methods, entropy, serial, position_x, position_y, self_nodes,
                   self_connections, mi, pos, match, nodes, connections,
                   last_node, event_node, previous>>

Next ==
    \/ BeginMethod
    \/ ForLoop
    \/ WhileLoop
    \/ ForeachLoop
    \/ Switch
    \/ DebugLog
    \/ IfStatement
    \/ Assignment
    \/ YieldReturn
    \/ SkipCall
    \/ MethodCall
    \/ Scan
    \/ FinishMethod
    \/ Serialize

Spec == Init /\ [][Next]_vars

(***************************************************************************)
(* convert() called a second time on the same text                         *)
(***************************************************************************)

\* What a finished call leaves for the comparison with a later one.
produced ==
    [nodes |-> self_nodes, connections |-> self_connections, elements |-> elements]

\* A variant of ConvertAgain in which the second call works with the first
\* call's generator instead of a new one: the layout cursor is not reset.
ConvertAgainSameGenerator ==
    /\ pc = "done"
    /\ previous = None
    /\ previous' = Some(produced)
    /\ self_nodes' = <<>>
    /\ self_connections' = <<>>
    /\ elements' = <<>>
    /\ mi' = 1
    /\ pc' = "begin"
    /\ pos' = 1
    /\ match' = NoMatch
    /\ nodes' = <<>>
    /\ connections' = <<>>
    /\ last_node' = 0
    /\ event_node' = 0
    /\ UNCHANGED <<cs_code, start_pos, returned,
                   methods, entropy, serial, position_x, position_y>>

\* Lines 964-968, called again with the same cs_code: the parser finds the
\* same methods, the generator is a new one (lines 283-289), and the tokens
\* it draws are new ones.
ConvertAgain ==
    /\ pc = "done"
    /\ previous = None
    /\ previous' = Some(produced)
    /\ position_x' = 0
    /\ position_y' = 0
    /\ self_nodes' = <<>>
    /\ self_connections' = <<>>
    /\ elements' = <<>>
    /\ mi' = 1
    /\ pc' = "begin"
    /\ pos' = 1
    /\ match' = NoMatch
    /\ nodes' = <<>>
    /\ connections' = <<>>
    /\ last_node' = 0
    /\ event_node' = 0
    /\ UNCHANGED <<cs_code, start_pos, returned, methods, entropy, serial>>

NextTwice ==
    \/ Next
    \/ ConvertAgain

SpecTwice == Init /\ [][NextTwice]_vars

\* Lines 964-968, called after a finished call with a text that holds only
\* the last method of the first text: a new parser, a new generator, new
\* tokens.
ConvertLastAlone ==
    /\ pc = "done"
    /\ previous = None
    /\ Len(methods) > 1
    /\ previous' = Some(produced)
    /\ methods' = <<methods[Len(methods)]>>
    /\ cs_code' = SourceOf(methods')
    /\ position_x' = 0
    /\ position_y' = 0
    /\ self_nodes' = <<>>
    /\ self_connections' = <<>>
    /\ elements' = <<>>
    /\ mi' = 1
    /\ pc' = "begin"
    /\ pos' = 1
    /\ match' = NoMatch
    /\ nodes' = <<>>
    /\ connections' = <<>>
    /\ last_node' = 0
    /\ event_node' = 0
    /\ UNCHANGED <<start_pos, returned, entropy, serial>>

NextAlone ==
    \/ Next
    \/ ConvertLastAlone

SpecAlone == Init /\ [][NextAlone]_vars

(***************************************************************************)
(* _extract_body called on a text of braces                                *)
(***************************************************************************)

\* The longest text _extract_body is called on.
MaxText == 5

\* The texts of at most n characters over "{", "}" and a letter.
RECURSIVE BraceTexts(_)
BraceTexts(n) ==
    IF n = 0 THEN {""}
    ELSE BraceTexts(n - 1)
         \cup {t \o c : t \in {u \in BraceTexts(n - 1) : Len(u) = n - 1},
                        c \in {"{", "}", "a"}}

\* A parser holds a text, and _extract_body is about to be called with the
\* position of one of its opening braces; no generator exists yet.
InitExtractBody ==
    /\ cs_code \in BraceTexts(MaxText)
    /\ start_pos \in {i \in 1..Len(cs_code) : Ch(cs_code, i) = "{"}
    /\ returned = None
    /\ pc = "extract_body"
    /\ methods = <<>>
    /\ entropy \in Entropy
    /\ serial = 0
    /\ position_x = 0
    /\ position_y = 0
    /\ self_nodes = <<>>
    /\ self_connections = <<>>
    /\ elements = <<>>
    /\ mi = 1
    /\ pos = 1
    /\ match = NoMatch
    /\ nodes = <<>>
    /\ connections = <<>>
    /\ last_node = 0
    /\ event_node = 0
    /\ previous = None

\* The call of _extract_body, lines 236-247.
ExtractBody ==
    /\ pc = "extract_body"
    /\ returned' = Some(extract_body(cs_code, start_pos))
    /\ pc' = "returned"
    /\ UNCHANGED <<cs_code, start_pos, methods, entropy, serial, position_x,
                   position_y, self_nodes, self_connections, elements, mi, pos,
                   match, nodes, connections, last_node, event_node, previous>>

SpecExtractBody == InitExtractBody /\ [][ExtractBody]_vars

(***************************************************************************)
(* convert() from the text on: the parser, then the generator              *)
(***************************************************************************)

\* The most lines above a method.
MaxPreamble == 4

\* The lines that stand above a method: comments of both kinds, an
\* attribute, a blank line, a field.
PreambleLines == {"  // one", "  /* two */", "  [Attr]", "", "  int x;"}

\* The sequences of at most n such lines.
Preambles(n) == UNION {[1..k -> PreambleLines] : k \in 0..n}

RECURSIVE LinesText(_)
LinesText(lines) ==
    IF lines = <<>> THEN "" ELSE Head(lines) \o "\n" \o LinesText(Tail(lines))

\* A class with the method Start, empty, under the given lines.
UnderPreamble(lines) ==
    "class C {\n" \o LinesText(lines) \o "  void Start() " \o BodyOf(<<>>) \o "\n}"

\* A conditional with an else-if branch.
BranchStatements ==
    {"if (a) { } else if (b) { Debug.Log(\"no\"); }",
     "if (a) { x = 1; } else if (b) { obj.Run(a, b); }"}

\* The texts convert() is called with: a method under each preamble, and a
\* method of at most one statement, with or without a comment.
Sources ==
    {UnderPreamble(lines) : lines \in Preambles(MaxPreamble)}
    \cup
    {SourceOf(<<[name |-> n, body |-> BodyOf(b), comments |-> c]>>) :
        n \in MethodNames, c \in MethodComments,
        b \in {<<>>} \cup {<<st>> : st \in Statements \cup BranchStatements}}

\* convert() was called with a text: the parser is about to go through it.
InitParse ==
    /\ cs_code \in Sources
    /\ start_pos = 0
    /\ returned = None
    /\ pc = "parse"
    /\ methods = <<>>
    /\ entropy \in Entropy
    /\ serial = 0
    /\ position_x = 0
    /\ position_y = 0
    /\ self_nodes = <<>>
    /\ self_connections = <<>>
    /\ elements = <<>>
    /\ mi = 1
    /\ pos = 1
    /\ match = NoMatch
    /\ nodes = <<>>
    /\ connections = <<>>
    /\ last_node = 0
    /\ event_node = 0
    /\ previous = None

\* CSharpParser(cs_code), as far as the generator reads its result: the
\* methods (lines 177-219).  With no method generate_graph's loop over the
\* methods has nothing to do.
Parse ==
    /\ pc = "parse"
    /\ methods' = extract_methods(cs_code, 1)
    /\ pc' = IF methods' = <<>> THEN "serialize" ELSE "begin"
    /\ UNCHANGED <<cs_code, start_pos, returned, entropy, serial, position_x,
                   position_y, self_nodes, self_connections, elements, mi, pos,
                   match, nodes, connections, last_node, event_node, previous>>

NextParse ==
    \/ Parse
    \/ Next

SpecParse == InitParse /\ [][NextParse]_vars

(***************************************************************************)
(* Properties                                                              *)
(***************************************************************************)

\* The places of the Node and of the Connection elements in the document.
NodeElements == {i \in 1..Len(elements) : "$id" \in DOMAIN elements[i]}
ConnectionElements == {i \in 1..Len(elements) : "sourceUnit" \in DOMAIN elements[i]}

\* The identifiers the Node elements of the document carry.
NodeIds == {elements[i]["$id"] : i \in NodeElements}

\* C1: in every document generate_graph produces, the sourceUnit and the
\* destinationUnit reference of every Connection element is the identifier
\* of some Node element of the same document.
C1_EndpointsExist ==
    \A i \in ConnectionElements :
        /\ elements[i]["sourceUnit"].ref \in NodeIds
        /\ elements[i]["destinationUnit"].ref \in NodeIds

\* A finished document of two methods that holds connections.
C1_Witness ==
    /\ pc = "done"
    /\ Len(methods) = 2
    /\ ConnectionElements # {}

\* C2: within one document no two Node elements carry the same "$id", so a
\* connection's endpoint reference picks out one node.
C2_IdsUnique ==
    \A i, j \in NodeElements :
        i # j => elements[i]["$id"] # elements[j]["$id"]

\* _process_method is at work on a lifecycle event method.
InEventMethod ==
    /\ pc \in {Categories[k] : k \in 1..Len(Categories)} \cup {"comments"}
    /\ method.name \in UNITY_EVENTS

\* The connections of the method under work that were made into its n-th
\* node, and those among them that are control connections.
Incoming(n) ==
    {c \in 1..Len(connections) : connections[c].dest_node = nodes[n].guid}
IncomingControl(n) ==
    {c \in Incoming(n) :
        connections[c].connection_type = "Unity.VisualScripting.ControlConnection"}

\* The node declares a control input port.
HasControlInput(node) ==
    \E p \in 1..Len(node.ports) : node.ports[p].port_type = CONTROL_INPUT

EventNodes == {n \in 1..Len(nodes) : nodes[n].category = "event"}

\* C3 as stated: for a lifecycle event method exactly one Event node is
\* emitted, it is first in the method's node list, and it is the only node
\* of the method that is not the destination of any connection.
C3_EventIsOnlyRoot ==
    InEventMethod =>
        /\ EventNodes = {1}
        /\ Incoming(1) = {}
        /\ \A n \in 2..Len(nodes) : Incoming(n) # {}

\* C3, amended: for a lifecycle event method exactly one Event node is
\* emitted, it is first in the method's node list and the destination of no
\* connection; every other node that declares a control input port is the
\* destination of exactly one control connection, and the nodes that declare
\* none (literal, comparison, arithmetic, timed wait) are the destination of
\* no connection.
C3_EventIsOnlyControlRoot ==
    InEventMethod =>
        /\ EventNodes = {1}
        /\ Incoming(1) = {}
        /\ \A n \in 2..Len(nodes) :
              IF HasControlInput(nodes[n])
              THEN Cardinality(IncomingControl(n)) = 1
              ELSE Incoming(n) = {}

\* An event method is through all its categories, and it emitted a node with
\* a control input and a node without.
C3_Witness ==
    /\ InEventMethod
    /\ pc = "comments"
    /\ \E n \in 2..Len(nodes) : HasControlInput(nodes[n])
    /\ \E n \in 2..Len(nodes) : ~HasControlInput(nodes[n])

\* _process_method is at work on a method.
InMethod == pc \in {Categories[k] : k \in 1..Len(Categories)} \cup {"comments"}

\* The place in the precedence for-loop, while-loop, foreach-loop, switch,
\* logging call, conditional, assignment, yield-suspend, generic member call
\* of the construct a node was emitted for; 0 for the nodes that accompany a
\* construct node (event, literal, comparison, arithmetic, timed wait).
ConstructRank(node) ==
    CASE node.node_type = "Unity.VisualScripting.For" -> 1
      [] node.node_type = "Unity.VisualScripting.While" -> 2
      [] node.node_type = "Unity.VisualScripting.ForEach" -> 3
      [] node.node_type = "Unity.VisualScripting.SwitchOnInteger" -> 4
      [] node.node_type = "Unity.VisualScripting.InvokeMember" ->
            IF /\ node.member_info[1].targetType = "UnityEngine.Debug"
               /\ node.member_info[1].name = "Log"
            THEN 5 ELSE 9
      [] node.node_type = "Unity.VisualScripting.If" -> 6
      [] node.node_type = "Unity.VisualScripting.SetVariable" -> 7
      [] node.node_type = "Unity.VisualScripting.YieldReturn" -> 8
      [] OTHER -> 0

RankNames ==
    <<"for", "while", "foreach", "switch", "debug_log", "if",
      "assignment", "yield", "method_call">>

\* The rank of the category whose loop is running (past them all at the end).
CurrentRank ==
    IF pc = "comments" THEN Len(RankNames) + 1
    ELSE CHOOSE k \in 1..Len(RankNames) : RankNames[k] = pc

\* The places in nodes of the construct nodes, in the order of emission.
RECURSIVE ConstructsUpTo(_)
ConstructsUpTo(n) ==
    IF n = 0 THEN <<>>
    ELSE IF ConstructRank(nodes[n]) > 0 THEN Append(ConstructsUpTo(n - 1), n)
    ELSE ConstructsUpTo(n - 1)
Constructs == ConstructsUpTo(Len(nodes))

\* The matches re.finditer yields for a category over the text s from
\* position i on, in textual order.
RECURSIVE MatchesFrom(_, _, _)
MatchesFrom(kind, s, i) ==
    LET m == re_search(kind, s, i)
    IN  IF m.end = 0 THEN <<>> ELSE <<m>> \o MatchesFrom(kind, s, m.end)

\* The matches of a category a node is emitted for.
NotSkipped(m) == ~call_skipped(body, m)
Emitted(kind) ==
    IF kind = "method_call"
    THEN SelectSeq(MatchesFrom(kind, body, 1), NotSkipped)
    ELSE MatchesFrom(kind, body, 1)

\* The number of construct nodes of rank k emitted so far.
EmittedCount(k) ==
    Cardinality({a \in 1..Len(Constructs) : ConstructRank(nodes[Constructs[a]]) = k})

\* The sources of the control connections into the n-th node.
ControlSources(n) == {connections[c].source_node : c \in IncomingControl(n)}

\* C4: construct nodes are emitted and wired grouped by category in the
\* fixed precedence, in textual order within a category: while a category's
\* loop runs no node of a later category exists, every match of every
\* earlier category has its node, the match in hand is the next one of its
\* category in textual order, the ranks never decrease along the node list,
\* and each construct node has one control connection into it, from the
\* construct node emitted before it (from the Event node for the first).
C4_CategoryPrecedence ==
    InMethod =>
        LET cs == Constructs
        IN  /\ \A a \in 1..Len(cs) : ConstructRank(nodes[cs[a]]) <= CurrentRank
            /\ \A a \in 1..Len(cs) - 1 :
                  ConstructRank(nodes[cs[a]]) <= ConstructRank(nodes[cs[a + 1]])
            /\ \A k \in 1..CurrentRank - 1 :
                  EmittedCount(k) = Len(Emitted(RankNames[k]))
            /\ (match.end # 0 /\ (pc = "method_call" => NotSkipped(match))) =>
                  /\ EmittedCount(CurrentRank) < Len(Emitted(pc))
                  /\ match = Emitted(pc)[EmittedCount(CurrentRank) + 1]
            /\ \A a \in 2..Len(cs) :
                  /\ Cardinality(IncomingControl(cs[a])) = 1
                  /\ ControlSources(cs[a]) = {nodes[cs[a - 1]].guid}
            /\ Len(cs) >= 1 =>
                  IF event_node # 0
                  THEN /\ Cardinality(IncomingControl(cs[1])) = 1
                       /\ ControlSources(cs[1]) = {nodes[event_node].guid}
                  ELSE IncomingControl(cs[1]) = {}

\* The method `if (x > 3) { }' followed by `for (int i = 0; i < 5; i++) { }'
\* is through: the For node stands before the If node and a control
\* connection leads from the one to the other (the assignment `i = 0' of the
\* loop header comes after both).
C4_Witness ==
    /\ pc = "comments"
    /\ body = BodyOf(<<"if (x > 3) { }", "for (int i = 0; i < 5; i++) { }">>)
    /\ \E a, b \in 1..Len(nodes) :
          /\ a < b
          /\ nodes[a].node_type = "Unity.VisualScripting.For"
          /\ nodes[b].node_type = "Unity.VisualScripting.If"
          /\ nodes[a].guid \in ControlSources(b)

\* The names of the output ports and of the input ports a node declares.
OutputPorts(node) ==
    {node.ports[p].name : p \in {q \in 1..Len(node.ports) :
        node.ports[q].port_type \in {CONTROL_OUTPUT, VALUE_OUTPUT}}}
InputPorts(node) ==
    {node.ports[p].name : p \in {q \in 1..Len(node.ports) :
        node.ports[q].port_type \in {CONTROL_INPUT, VALUE_INPUT}}}

\* The node of the method under work that carries the token guid.
NodeOf(guid) == nodes[CHOOSE n \in 1..Len(nodes) : nodes[n].guid = guid]

\* C5: for every connection the source key names an output port declared on
\* the source node and the destination key names an input port declared on
\* the destination node.
C5_KeysNameDeclaredPorts ==
    \A c \in 1..Len(connections) :
        /\ connections[c].source_key \in OutputPorts(NodeOf(connections[c].source_node))
        /\ connections[c].destination_key \in InputPorts(NodeOf(connections[c].dest_node))

\* The value connections of the method under work that were made into its
\* n-th node, each as <<place of the source node, source key, destination key>>.
PlaceOf(guid) == CHOOSE n \in 1..Len(nodes) : nodes[n].guid = guid
ValueWires(n) ==
    {<<PlaceOf(connections[c].source_node), connections[c].source_key,
       connections[c].destination_key>> :
        c \in {d \in Incoming(n) :
                 connections[d].connection_type = "Unity.VisualScripting.ValueConnection"}}
ValueWireCount(n) ==
    Cardinality({d \in Incoming(n) :
        connections[d].connection_type = "Unity.VisualScripting.ValueConnection"})

\* The node is a literal of the given type holding the given value.
IsLiteral(node, value_type, value) ==
    /\ node.node_type = "Unity.VisualScripting.Literal"
    /\ node.default_values.type = value_type
    /\ node.default_values.value.content = value

\* The key by which a connection addresses the value input `port' of a node:
\* the port's name behind the marker "%".
ValueInputKey(node, port) ==
    IF port \in InputPorts(node) THEN "%" \o port ELSE "?"

\* The integer a loop bound text stands for: its value when it is a plain
\* integer literal (digits only), the fallback otherwise.
BoundValue(text, fallback) ==
    IF text # "" /\ \A i \in 1..Len(text) : Ch(text, i) \in Digits
    THEN ParseInt(text) ELSE fallback

\* The places of the nodes of one type, in the order of emission.
RECURSIVE PlacesUpTo(_, _)
PlacesUpTo(node_type, n) ==
    IF n = 0 THEN <<>>
    ELSE IF nodes[n].node_type = node_type
         THEN Append(PlacesUpTo(node_type, n - 1), n)
         ELSE PlacesUpTo(node_type, n - 1)
Places(node_type) == PlacesUpTo(node_type, Len(nodes))

OperatorPriority == <<"<=", ">=", "==", "!=", "<", ">">>
FirstOperator(condition) ==
    IF \E k \in 1..Len(OperatorPriority) : Contains(condition, OperatorPriority[k])
    THEN OperatorPriority[CHOOSE k \in 1..Len(OperatorPriority) :
            /\ Contains(condition, OperatorPriority[k])
            /\ \A j \in 1..k - 1 : ~Contains(condition, OperatorPriority[j])]
    ELSE ""

\* The node kind that stands for a comparison operator.
ComparisonKind(op) ==
    CASE op = "<=" -> "Unity.VisualScripting.GenericLessOrEqual"
      [] op = ">=" -> "Unity.VisualScripting.GenericGreaterOrEqual"
      [] op = "==" -> "Unity.VisualScripting.GenericEqual"
      [] op = "!=" -> "Unity.VisualScripting.GenericNotEqual"
      [] op = "<" -> "Unity.VisualScripting.GenericLess"
      [] op = ">" -> "Unity.VisualScripting.GenericGreater"

\* The n-th node of the method is the last one, or the node after it was
\* emitted for a construct of its own.
ConstructFollows(n) == n < Len(nodes) => ConstructRank(nodes[n + 1]) > 0

IsStringLiteral(text) ==
    /\ Len(text) >= 2
    /\ Ch(text, 1) = "\""
    /\ Ch(text, Len(text)) = "\""
    /\ \A i \in 2..Len(text) - 1 : Ch(text, i) = "\"" => Ch(text, i - 1) = "\\"

\* The node is an invoke node bound to member `name' of `target'.
IsInvokeOf(node, target, name) ==
    /\ node.node_type = "Unity.VisualScripting.InvokeMember"
    /\ node.member_info[1].targetType = target
    /\ node.member_info[1].name = name

\* The places of the invoke nodes bound to UnityEngine.Debug.Log.
LogNodes == SelectSeq(Constructs, LAMBDA n : ConstructRank(nodes[n]) = 5)

\* C8: for each `Debug.Log(<arg>)' of a method body exactly one invoke node
\* bound to member Log of UnityEngine.Debug is emitted in the whole method
\* (the generic-call category adds none for the same call); iff <arg> is a
\* double-quoted string literal, one string literal node holding the
\* unquoted text is emitted with it, and one value connection from the
\* literal's output into the invoke node's message input.
C8_LogShape ==
    InMethod =>
        LET ms == Emitted("debug_log")
            fs == LogNodes
        IN  /\ Len(fs) <= Len(ms)
            /\ CurrentRank > 5 => Len(fs) = Len(ms)
            /\ \A n \in 1..Len(nodes) : ~IsInvokeOf(nodes[n], "Debug", "Log")
            /\ \A a \in 1..Len(fs) :
                  LET n == fs[a]
                      arg == Strip(ms[a].group1)
                  IN  IF IsStringLiteral(arg)
                      THEN /\ n + 1 <= Len(nodes)
                           /\ IsLiteral(nodes[n + 1], "System.String",
                                        SubSeq(arg, 2, Len(arg) - 1))
                           /\ ValueWireCount(n) = 1
                           /\ ValueWires(n) = {<<n + 1, "output", "%message">>}
                           /\ ConstructFollows(n + 1)
                      ELSE /\ ValueWireCount(n) = 0
                           /\ ConstructFollows(n)

\* The position of the "}" that matches a "{" standing just before position
\* i of the text s: the first "}" from i on with one more "}" than "{" among
\* s[i..j]; 0 when there is none.
MatchingBrace(s, i) ==
    LET closes == {j \in i..Len(s) :
                      /\ Ch(s, j) = "}"
                      /\ count_char(s, i, j, "}") = count_char(s, i, j, "{") + 1}
    IN  IF closes = {} THEN 0
        ELSE CHOOSE j \in closes : \A k \in closes : j <= k

\* The number of integer `case N:' labels between the opening brace a switch
\* match ends with and the brace matching it.
LabelsInSwitch(m) ==
    IF MatchingBrace(body, m.end) = 0 THEN 0
    ELSE count_cases(SubSeq(body, m.end, MatchingBrace(body, m.end) - 1), 1)

\* The names of the control outputs a node declares.
ControlOutputs(node) ==
    {node.ports[p].name : p \in {q \in 1..Len(node.ports) :
        node.ports[q].port_type = CONTROL_OUTPUT}}

\* C9: the switch node of every recognized `switch (<expr>) {' has exactly N
\* numbered case control outputs plus one `default' output, N being the
\* number of integer case labels between the switch's opening brace and its
\* matching closing brace.
C9_SwitchCaseOutputs ==
    InMethod =>
        LET ms == Emitted("switch")
            fs == Places("Unity.VisualScripting.SwitchOnInteger")
        IN  /\ Len(fs) <= Len(ms)
            /\ \A a \in 1..Len(fs) :
                  ControlOutputs(nodes[fs[a]]) =
                     {Str(k) : k \in 0..LabelsInSwitch(ms[a]) - 1} \cup {"default"}

\* The place in a node list of the node that carries the token guid.
PlaceIn(ns, guid) == CHOOSE n \in 1..Len(ns) : ns[n].guid = guid

\* A Node element without the entries that hold its token.
Untokened(element) ==
    [k \in DOMAIN element \ {"guid", "$id"} |-> element[k]]

\* C10: converting the same text twice yields two graphs that are identical
\* up to the generated tokens: as many nodes and as many connections, at
\* each index of the element sequence the same node kind, position and port
\* list (and every other entry but the token), and for each connection the
\* same endpoints, by index, and the same port keys.
C10_SecondRunSameGraph ==
    (pc = "done" /\ previous # None) =>
        LET first == previous[1]
        IN  /\ Len(self_nodes) = Len(first.nodes)
            /\ Len(self_connections) = Len(first.connections)
            /\ Len(elements) = Len(first.elements)
            /\ \A n \in 1..Len(self_nodes) :
                  /\ self_nodes[n].node_type = first.nodes[n].node_type
                  /\ self_nodes[n].position = first.nodes[n].position
                  /\ self_nodes[n].ports = first.nodes[n].ports
                  /\ Untokened(elements[n]) = Untokened(first.elements[n])
            /\ \A c \in 1..Len(self_connections) :
                  /\ PlaceIn(self_nodes, self_connections[c].source_node)
                        = PlaceIn(first.nodes, first.connections[c].source_node)
                  /\ PlaceIn(self_nodes, self_connections[c].dest_node)
                        = PlaceIn(first.nodes, first.connections[c].dest_node)
                  /\ self_connections[c].source_key = first.connections[c].source_key
                  /\ self_connections[c].destination_key
                        = first.connections[c].destination_key
                  /\ self_connections[c].connection_type
                        = first.connections[c].connection_type

\* The second call is through, for a text that gives more nodes than one
\* layout row holds and some connections, and no token of the first graph
\* occurs in the second.
C10_Witness ==
    /\ pc = "done"
    /\ previous # None
    /\ Len(self_nodes) > 5
    /\ self_connections # <<>>
    /\ \A n \in 1..Len(self_nodes) : self_nodes[n].guid # previous[1].nodes[n].guid


\* The tokens of a list of nodes or of connections, in the list's order.
Guids(seq) == [i \in 1..Len(seq) |-> seq[i].guid]

\* The list a is an initial part of the list b.
IsPrefix(a, b) == Len(a) <= Len(b) /\ SubSeq(b, 1, Len(a)) = a

\* The element sequence is the accumulated nodes, in their order, followed
\* by the accumulated connections, in theirs.
NodesThenConnections ==
    /\ Len(elements) = Len(self_nodes) + Len(self_connections)
    /\ NodeElements = 1..Len(self_nodes)
    /\ ConnectionElements = (Len(self_nodes) + 1)..Len(elements)
    /\ \A i \in NodeElements, j \in ConnectionElements : i < j
    /\ \A i \in 1..Len(self_nodes) : elements[i]["guid"] = self_nodes[i].guid
    /\ \A i \in 1..Len(self_connections) :
          elements[Len(self_nodes) + i]["guid"] = self_connections[i].guid

\* What a step does to the lists: within a method what is emitted goes to
\* the end of the method's lists; when the method with index mi is through,
\* its lists go, as they are, to the end of the accumulated lists; nothing
\* else changes the accumulated lists.
EmissionOrderKept ==
    /\ (mi' = mi /\ pc # "begin" /\ pc # "done") =>
          /\ IsPrefix(nodes, nodes')
          /\ IsPrefix(connections, connections')
    /\ IF mi' = mi + 1
       THEN /\ Guids(self_nodes') = Guids(self_nodes) \o Guids(nodes)
            /\ Guids(self_connections') = Guids(self_connections) \o Guids(connections)
       ELSE pc # "done" => UNCHANGED <<self_nodes, self_connections>>

ControlConnections ==
    SelectSeq(connections,
              LAMBDA c : c.connection_type = "Unity.VisualScripting.ControlConnection")

\* The places of the nodes control flows through, in the order of emission:
\* the Event node, if there is one, and the construct nodes.
ControlChain ==
    SelectSeq([n \in 1..Len(nodes) |-> n],
              LAMBDA n : nodes[n].category = "event" \/ ConstructRank(nodes[n]) > 0)

\* The control connections out of the n-th node of the method under work.
OutgoingControl(n) ==
    {c \in 1..Len(connections) :
        /\ connections[c].source_node = nodes[n].guid
        /\ connections[c].connection_type = "Unity.VisualScripting.ControlConnection"}

\* The control connections form one chain along the order of emission; the
\* cursor is empty or stands at the last node of the chain.
CursorChain ==
    LET chain == ControlChain
        cc == ControlConnections
    IN  /\ Len(cc) = IF chain = <<>> THEN 0 ELSE Len(chain) - 1
        /\ \A k \in 1..Len(cc) :
              /\ cc[k].source_node = nodes[chain[k]].guid
              /\ cc[k].dest_node = nodes[chain[k + 1]].guid
              /\ cc[k].source_key =
                    IF nodes[chain[k]].category = "event" THEN "trigger" ELSE "exit"
              /\ cc[k].destination_key = "enter"
        /\ \A n \in 1..Len(nodes) :
              ConstructRank(nodes[n]) > 0 =>
                 /\ Cardinality(IncomingControl(n)) <= 1
                 /\ Cardinality(OutgoingControl(n)) <= 1
        /\ (method.name \notin UNITY_EVENTS /\ chain # <<>>) =>
              IncomingControl(chain[1]) = {}
        /\ last_node = IF chain = <<>> THEN 0 ELSE chain[Len(chain)]

\* What a step does to the cursor.  At the start of a method it is set to
\* the Event node, or to nothing when the method is no lifecycle method.  A
\* step that emits nodes emits one construct node, and after it only nodes
\* that accompany it; it adds one control connection from the cursor's node
\* to the construct's enter port when the cursor is not empty and none when
\* it is, and leaves the cursor at the construct.  Any other step of the
\* method leaves the cursor and the connections alone.
CursorStep ==
    /\ pc = "begin" =>
          IF method.name \in UNITY_EVENTS
          THEN last_node' = 1 /\ Len(nodes') = 1 /\ nodes'[1].category = "event"
          ELSE last_node' = 0 /\ nodes' = <<>>
    /\ (InMethod /\ nodes' # nodes) =>
          LET n == Len(nodes) + 1
              made == SubSeq(connections', Len(connections) + 1, Len(connections'))
              control == SelectSeq(made, LAMBDA c :
                            c.connection_type = "Unity.VisualScripting.ControlConnection")
          IN  /\ IsPrefix(nodes, nodes')
              /\ IsPrefix(connections, connections')
              /\ ConstructRank(nodes'[n]) > 0
              /\ \A a \in (n + 1)..Len(nodes') :
                    ConstructRank(nodes'[a]) = 0 /\ nodes'[a].category # "event"
              /\ last_node' = n
              /\ IF last_node = 0
                 THEN control = <<>>
                 ELSE /\ Len(control) = 1
                      /\ control[1].source_node = nodes[last_node].guid
                      /\ control[1].source_key =
                            IF nodes[last_node].category = "event"
                            THEN "trigger" ELSE "exit"
                      /\ control[1].dest_node = nodes'[n].guid
                      /\ control[1].destination_key = "enter"
    /\ (InMethod /\ nodes' = nodes) => UNCHANGED <<last_node, connections>>

\* C12: within one method the control cursor starts at the Event node of a
\* lifecycle method and empty otherwise; each emitted construct node gets
\* exactly one control connection from the cursor's node (key trigger from
\* the Event node, exit otherwise) to its enter port when the cursor is not
\* empty, and becomes the cursor; literal, comparison, arithmetic and
\* timed-wait nodes never become the cursor.  Hence the control connections
\* form one linear chain in emission order, each construct node has at most
\* one incoming and one outgoing control connection, and the first construct
\* of a non-event method has no incoming control connection.
C12_CursorChain ==
    /\ [](InMethod => CursorChain)
    /\ [][CursorStep]_vars

\* A lifecycle method is through: its chain runs from the Event node over
\* two construct nodes, and a node that accompanies a construct was emitted.
C12_Witness ==
    /\ pc = "comments"
    /\ event_node # 0
    /\ Len(ControlChain) = 3
    /\ Len(ControlConnections) = 2
    /\ ControlConnections[1].source_key = "trigger"
    /\ ControlConnections[2].source_key = "exit"
    /\ Len(nodes) > 3


\* The nodes created so far in the document, in the order of creation: those
\* of the methods that are through and those of the method under work.
CreatedNodes ==
    IF pc \in {"begin", "serialize", "done"} THEN self_nodes ELSE self_nodes \o nodes

\* C13: the n-th node created in a document (n counted from 0 over all its
\* methods, in emission order) stands at x = 250 * (n mod 5) and
\* y = 150 * (n div 5), whatever the connections; so x never exceeds 1000,
\* y never decreases along the node sequence, and no two nodes of a document
\* share a position.
C13_GridPositions ==
    LET ns == CreatedNodes
    IN  /\ \A n \in 1..Len(ns) :
              /\ ns[n].position[1] = 250 * ((n - 1) % 5)
              /\ ns[n].position[2] = 150 * ((n - 1) \div 5)
              /\ ns[n].position[1] <= 1000
        /\ \A n \in 1..Len(ns) - 1 : ns[n].position[2] <= ns[n + 1].position[2]
        /\ \A a, b \in 1..Len(ns) : a # b => ns[a].position # ns[b].position
        /\ pc = "done" =>
              \A n \in 1..Len(ns) :
                 /\ elements[n]["position"].x = 250 * ((n - 1) % 5)
                 /\ elements[n]["position"].y = 150 * ((n - 1) \div 5)

\* A finished document of two methods whose nodes fill more than one row,
\* the second row starting at x = 0, y = 150.
C13_Witness ==
    /\ pc = "done"
    /\ Len(methods) = 2
    /\ Len(self_nodes) > 5
    /\ self_nodes[5].position = <<1000, 0>>
    /\ self_nodes[5 + 1].position = <<0, 150>>
    /\ self_connections # <<>>


\* The nodes of the method that is through, as they go to the accumulated
\* list according to the claim: unchanged, but for the description of the
\* Event node of a lifecycle method that has comments.
NodesHandedOver ==
    [n \in 1..Len(nodes) |->
        IF /\ method.name \in UNITY_EVENTS
           /\ method.comments # ""
           /\ nodes[n].category = "event"
        THEN [nodes[n] EXCEPT !.description = Some(method.comments)]
        ELSE nodes[n]]

\* What a step does to the nodes that exist: within a method they stay as
\* they are, field by field; at the end of the method they go to the
\* accumulated list as NodesHandedOver says; the accumulated nodes stay as
\* they are.
NodesKept ==
    /\ (InMethod /\ mi' = mi) => IsPrefix(nodes, nodes')
    /\ IsPrefix(self_nodes, self_nodes')
    /\ mi' = mi + 1 => self_nodes' = self_nodes \o NodesHandedOver

\* Nothing but a finished lifecycle method's Event node has a description,
\* in the nodes and in the elements written from them.
OnlyEventsDescribed ==
    /\ InMethod => \A n \in 1..Len(nodes) : nodes[n].description = None
    /\ \A n \in 1..Len(self_nodes) :
          self_nodes[n].description # None => self_nodes[n].category = "event"
    /\ \A i \in NodeElements :
          "summary" \in DOMAIN elements[i] => self_nodes[i].category = "event"

IsAssignmentAt(s, j) ==
    /\ Ch(s, j) = "="
    /\ ~(j > 1 /\ Ch(s, j - 1) \in {"=", "!", "<", ">"})
    /\ ~(j < Len(s) /\ Ch(s, j + 1) = "=")

\* An assignment operator stands among the up to 20 characters that precede
\* position start of the text s, on the line of start.
AssignedBefore(s, start) ==
    \E j \in 1..start - 1 :
        /\ start - j <= 20
        /\ IsAssignmentAt(s, j)
        /\ \A k \in j..start - 1 : Ch(s, k) # "\n"

\* The `receiver.method(args)' matches of the body an invoke node is due to.
DueCalls ==
    SelectSeq(MatchesFrom("method_call", body, 1),
              LAMBDA m : /\ ~(m.target_obj = "Debug" /\ m.method_name = "Log")
                         /\ ~AssignedBefore(body, m.start))

\* The places of the invoke nodes of the generic-call category.
CallNodes == SelectSeq(Constructs, LAMBDA n : ConstructRank(nodes[n]) = 9)

\* C17: each `receiver.method(args)' match yields exactly one invoke node,
\* wired from the cursor, unless receiver and method are Debug and Log or an
\* assignment operator occurs within the up to 20 characters that precede
\* the match on its line; a call preceded on its line only by a comparison
\* operator (==, !=, <=, >=) is not skipped, nor is one whose preceding
\* assignment stands on an earlier line or more than 20 characters back.
C17_CallsInvoked ==
    (InMethod /\ pc = "comments") =>
        LET due == DueCalls
            made == CallNodes
        IN  /\ Len(made) = Len(due)
            /\ \A a \in 1..Len(made) :
                  /\ nodes[made[a]].member_info[1].name = due[a].method_name
                  /\ Cardinality(IncomingControl(made[a])) =
                        IF made[a] = ControlChain[1] THEN 0 ELSE 1


\* The spans of the body, as <<first position, position after the last>>,
\* that belong to a recognized for-loop header or to a recognized if
\* condition.
HeaderSpans ==
    {<<MatchesFrom("for", body, 1)[a].start, MatchesFrom("for", body, 1)[a].end>> :
        a \in 1..Len(MatchesFrom("for", body, 1))}
    \cup
    {<<MatchesFrom("if", body, 1)[a].start, MatchesFrom("if", body, 1)[a].end>> :
        a \in 1..Len(MatchesFrom("if", body, 1))}

\* The assignment matches of the body whose variable stands outside every
\* for-loop header and every if condition.
OwnAssignments ==
    SelectSeq(MatchesFrom("assignment", body, 1),
              LAMBDA m : \A span \in HeaderSpans :
                            m.start < span[1] \/ m.start >= span[2])

\* The body of the method under work is the single statement stmt.
BodyIs(stmt) == body = BodyOf(<<stmt>>)

\* C19: within one method body each recognized statement produces nodes
\* under exactly one construct category: text that belongs to a recognized
\* for-loop header or to an if condition produces no set-variable node from
\* the assignment category, so a body that consists of a single for-loop
\* yields exactly three nodes.
C19_OneCategoryPerStatement ==
    (InMethod /\ pc = "comments") =>
        /\ Len(Places("Unity.VisualScripting.SetVariable")) = Len(OwnAssignments)
        /\ (BodyIs("for (int i = 0; i < 5; i++) { }") /\ event_node = 0) =>
              Len(nodes) = 3


\* The tokens of the nodes of the method under work.
OwnNodes == {nodes[n].guid : n \in 1..Len(nodes)}

\* A node without its token and its layout position.
Unplaced(node) ==
    [f \in DOMAIN node \ {"guid", "position"} |-> node[f]]

\* C18: the control cursor is reset at the start of each method: every
\* connection of a method joins two nodes of that method, and the node
\* kinds, port lists and connection pattern emitted for a method are the
\* same whichever methods were translated before it, only layout positions
\* and generated identifiers depending on them: translated alone, the last
\* method of a document yields what it yielded at the end of the document.
C18_MethodsIndependent ==
    /\ InMethod =>
          \A c \in 1..Len(connections) :
             /\ connections[c].source_node \in OwnNodes
             /\ connections[c].dest_node \in OwnNodes
    /\ (pc = "done" /\ previous # None) =>
          LET first == previous[1]
              k == Len(first.nodes) - Len(self_nodes)
              kc == Len(first.connections) - Len(self_connections)
          IN  /\ k >= 0
              /\ kc >= 0
              /\ \A n \in 1..Len(self_nodes) :
                    Unplaced(self_nodes[n]) = Unplaced(first.nodes[k + n])
              /\ \A c \in 1..Len(self_connections) :
                    /\ PlaceIn(self_nodes, self_connections[c].source_node) + k
                          = PlaceIn(first.nodes, first.connections[kc + c].source_node)
                    /\ PlaceIn(self_nodes, self_connections[c].dest_node) + k
                          = PlaceIn(first.nodes, first.connections[kc + c].dest_node)
                    /\ self_connections[c].source_key
                          = first.connections[kc + c].source_key
                    /\ self_connections[c].destination_key
                          = first.connections[kc + c].destination_key
                    /\ self_connections[c].connection_type
                          = first.connections[kc + c].connection_type

\* The last method of a document of two methods was translated again, alone:
\* it has nodes and connections, the method before it had nodes too, and its
\* nodes stand at other positions than in the document.
C18_Witness ==
    /\ pc = "done"
    /\ previous # None
    /\ Len(methods) = 1
    /\ Len(self_nodes) >= 2
    /\ self_connections # <<>>
    /\ Len(previous[1].nodes) > Len(self_nodes)
    /\ self_nodes[1].position
          # previous[1].nodes[Len(previous[1].nodes) - Len(self_nodes) + 1].position


\* The braces of s[a..b] are balanced: as many "}" as "{", and at no point
\* more "}" than "{".
Balanced(s, a, b) ==
    /\ count_char(s, a, b, "{") = count_char(s, a, b, "}")
    /\ \A k \in a..b : count_char(s, a, k, "}") <= count_char(s, a, k, "{")

\* The positions of the closing brace that matches the opening brace at
\* position i of s: the "}" after i with balanced braces in between.
Partners(s, i) ==
    {j \in (i + 1)..Len(s) : Ch(s, j) = "}" /\ Balanced(s, i + 1, j - 1)}

\* C14: for any text and any position of an opening brace in it,
\* _extract_body returns exactly the span from that brace through its
\* matching closing brace, inclusive; when no closing brace brings the depth
\* back to zero it returns the empty text, and it raises no error.
C14_BodyIsBalancedSpan ==
    pc = "returned" =>
        /\ returned # None
        /\ Cardinality(Partners(cs_code, start_pos)) <= 1
        /\ \A j \in Partners(cs_code, start_pos) :
              returned[1] = SubSeq(cs_code, start_pos, j)
        /\ Partners(cs_code, start_pos) = {} => returned[1] = ""

\* _extract_body has returned the span "{{}}" of a text that goes on behind
\* it.
C14_Witness ==
    /\ pc = "returned"
    /\ returned = Some("{{}}")
    /\ Len(cs_code) = 5
    /\ start_pos = 1


\* The matches of method_pattern in the text, in textual order: one for
\* each method the parser recovers.
RECURSIVE MethodMatchesFrom(_, _)
MethodMatchesFrom(s, i) ==
    LET m == method_search(s, i)
    IN  IF m.end = 0 THEN <<>> ELSE <<m>> \o MethodMatchesFrom(s, m.end)
MethodMatches == MethodMatchesFrom(cs_code, 1)

\* The parser is through.
Parsed == pc # "parse" /\ pc # "extract_body" /\ pc # "returned"

\* The lines of the text above the line on which the match m has its
\* opening brace, the nearest one last.
LinesAbove(m) ==
    LET lines == split_lines(SubSeq(cs_code, 1, m.end - 1))
    IN  SubSeq(lines, 1, Len(lines) - 1)

\* What kind of line it is.
IsCommentLine(line) ==
    \/ StartsWith(Strip(line), "//")
    \/ StartsWith(Strip(line), "/*")
    \/ StartsWith(Strip(line), "*")
IsAttributeLine(line) == StartsWith(Strip(line), "[")

\* The text of a comment line, without its markers.
CommentText(line) ==
    IF StartsWith(Strip(line), "//")
    THEN Strip(SubSeq(Strip(line), 3, Len(Strip(line))))
    ELSE Strip(rstrip_chars(lstrip_chars(Strip(line), {"/", "*"}), {"*", "/"}))

\* The comment texts harvested from the lines, going from the last line
\* backwards: comment lines are collected, attribute lines are passed over,
\* and any other line, a blank one too, ends the harvest.  The texts come
\* out in the order of the lines.
RECURSIVE HarvestedFrom(_)
HarvestedFrom(lines) ==
    IF lines = <<>> THEN <<>>
    ELSE LET line == lines[Len(lines)]
             before == SubSeq(lines, 1, Len(lines) - 1)
         IN  IF IsCommentLine(line) THEN Append(HarvestedFrom(before), CommentText(line))
             ELSE IF IsAttributeLine(line) THEN HarvestedFrom(before)
             ELSE <<>>

\* C15: comment harvesting inspects at most the 5 lines immediately above
\* the method, from the nearest line backwards; it collects comment lines,
\* passes over attribute-like bracket lines and stops at the first line that
\* is neither, so a comment separated from the method by a blank line or by
\* a code line is not harvested; the harvested lines are joined in their
\* original order.
C15_CommentsHarvested ==
    Parsed =>
        /\ Len(methods) = Len(MethodMatches)
        /\ \A k \in 1..Len(methods) :
              methods[k].comments =
                 join_spaced(HarvestedFrom(last_lines(LinesAbove(MethodMatches[k]), 5)))


\* The positions of the text the body of the k-th recovered method spans:
\* from the opening brace its match ends with.
BodySpan(k) ==
    {j \in (MethodMatches[k].end - 1)..(MethodMatches[k].end - 2 + Len(methods[k].body)) :
        TRUE}

\* The number of places in the text at which a pattern of the generator's
\* categories matches.
Occurrences(kind) == Cardinality({j \in 1..Len(cs_code) : pattern_at(kind, cs_code, j).end # 0})

\* The number of nodes of one kind in the document.
NodesOfType(node_type) ==
    Cardinality({n \in 1..Len(self_nodes) : self_nodes[n].node_type = node_type})

\* C20: the bodies of the methods the extractor recovers are pairwise
\* non-overlapping spans of the source: a block header of the shape
\* `word word ( ... ) {' inside a method body, such as `else if (x) {', is
\* not recovered as a further method, so that no statement of the source is
\* translated into nodes more than once in a document.
C20_BodiesDisjoint ==
    Parsed =>
        /\ Len(methods) = Len(MethodMatches)
        /\ \A j, k \in 1..Len(methods) : j # k => BodySpan(j) \cap BodySpan(k) = {}
        /\ \A k \in 1..Len(methods) : methods[k].name # "if"
        /\ pc = "done" =>
              /\ NodesOfType("Unity.VisualScripting.If") <= Occurrences("if")
              /\ NodesOfType("Unity.VisualScripting.SetVariable") <= Occurrences("assignment")
              /\ NodesOfType("Unity.VisualScripting.InvokeMember")
                    <= Occurrences("method_call")

=============================================================================
